---- MODULE Spec2Model ----
(***************************************************************************)
(* A model of the navi desktop pet's entity-component-system core:        *)
(* the World (entity map, component index, event bus), the stats and      *)
(* appearance components, the stats system, the movement system and the   *)
(* walking and interactions plugin systems of the host process.           *)
(***************************************************************************)
EXTENDS Integers, Sequences, FiniteSets, TLC

VARIABLES
    entities,        \* World.entities: entity id -> (component name -> data)
    componentIndex,  \* World.componentIndex: component name -> set of entity ids
    nextEntityId,    \* World.nextEntityId
    emitted,         \* the events emitted by the last operation, in order
    ret,             \* the value the last operation returned
    lastOp,          \* the last operation and its arguments
    removed,         \* history: ids removeEntity returned true for, not created/added since
    petConfig,       \* the species config handed to initializeMainProcess
    statsPetConfigs,         \* StatsSystem.petConfigs: species type -> config
    interactionsPetConfigs,  \* the interactions system's petConfigs
    systems,         \* World.systems: the registered system names, in registration order
    now,             \* Date.now(), in ms
    lastDegradationTime,     \* StatsSystem.config.lastDegradationTime
    lastEnergyCostTime,      \* the walking system's config.lastEnergyCostTime
    entitiesWalking, \* MovementSystem.state.entitiesWalking: entity id -> walk target
    timers,          \* the pending setTimeout callbacks of handleInteraction, in order
    walkTarget,      \* history: the target of the last walkRequested event, if not stopped since
    targetReached,   \* history: the targetReached events emitted since that request
    calls,           \* history: the number of requests delivered to the host
    ticks,           \* history: the number of passes of the update loop
    loadedPlugins,   \* the plugin loader's loadedPlugins: the ids, in insertion order
    eventListeners,  \* World.eventListeners: event name -> the callbacks, in insertion order
    invoked,         \* history: the callbacks the last operation invoked, in order
    disposers,       \* the functions on() has returned, one per call, in order; history:
                     \* how often each was called (2 for twice or more) and whether its
                     \* callback was registered for its event again since its last call
    statusHistory,   \* history: the number of writes of appearance.status so far, and for
                     \* each pending timer the number when its interaction had written
    display,         \* the display world's copy of the pet's state; None while no display
                     \* is attached (no event forwarder and no state update listener set)
    channel          \* the pet-state-updated messages sent to the display, not yet received

worldVars == <<entities, componentIndex, nextEntityId, emitted, ret, lastOp, removed>>

hostVars == <<petConfig, statsPetConfigs, interactionsPetConfigs, systems, now,
              lastDegradationTime, lastEnergyCostTime, entitiesWalking, timers,
              walkTarget, targetReached, calls, ticks, loadedPlugins, eventListeners,
              invoked, disposers, statusHistory, display, channel>>

vars == <<lastOp, entities, componentIndex, nextEntityId, emitted, removed,
          petConfig, statsPetConfigs, interactionsPetConfigs, systems, now,
          lastDegradationTime, lastEnergyCostTime, entitiesWalking, timers,
          walkTarget, targetReached, calls, ticks, loadedPlugins, eventListeners,
          invoked, disposers, statusHistory, display, channel, ret>>

(***************************************************************************)
(* Bounds of the World model.                                              *)
(***************************************************************************)
\* createEntity() without an id is not called once nextEntityId exceeds this
MaxNextEntityId == 2

\* the id createEntity() builds from the counter: `e${n}`
AutoIdTable == <<"e1", "e2", "e3", "e4", "e5", "e6">>
AutoId(n) == AutoIdTable[n]

\* ids callers pass explicitly; they collide with the generated ones
EntityIds == {"e1", "e2"}
ComponentNames == {"position", "stats"}
ComponentData == {"d1", "d2"}
\* createEntity(id) with a falsy id: `id || ...`
NoId == ""

EmptyMap == [k \in {} |-> k]
Put(f, k, v) == [x \in (DOMAIN f) \cup {k} |-> IF x = k THEN v ELSE f[x]]
Without(f, k) == [x \in (DOMAIN f) \ {k} |-> f[x]]

\* return values: an Entity is returned as its id
Null == "null"
True == "true"
False == "false"
\* a TypeError thrown out of a call
Thrown == "throws"
Undefined == "undefined"
Bool(b) == IF b THEN True ELSE False

(***************************************************************************)
(* The components: pure data and the functions that update it.             *)
(* An optional value (a config entry that may be undefined) is << >> when  *)
(* absent and <<v>> when present.                                          *)
(***************************************************************************)
None == << >>
Some(v) == <<v>>

Min(a, b) == IF a < b THEN a ELSE b
Max(a, b) == IF a > b THEN a ELSE b

MsPerHour == 3600000

\* a plausible slip: Math.floor in place of Math.round
MathRound_floor(num, den) == num \div den

\* Math.round(num / den) for den > 0: the nearest integer, halves upwards
MathRound(num, den) == (2 * num + den) \div (2 * den)

StatNames == {"hunger", "happiness", "energy"}

\* StatsComponent.create
StatsComponent_create(hunger, happiness, energy, t) ==
    [hunger |-> hunger, happiness |-> happiness, energy |-> energy, lastInteraction |-> t]

\* a plausible slip: the upper clamp is forgotten
applyModifiers_noUpperClamp(component, modifiers, t) ==
    IF modifiers = None THEN component
    ELSE LET m == modifiers[1]
             c1 == [s \in DOMAIN component |->
                      IF s \in DOMAIN m THEN Max(0, component[s] + m[s])
                      ELSE component[s]]
         IN [c1 EXCEPT !.lastInteraction = t]

\* StatsComponent.applyModifiers; modifiers is an optional map stat -> delta,
\* t is Date.now()
applyModifiers(component, modifiers, t) ==
    IF modifiers = None THEN component
    ELSE LET m == modifiers[1]
             c1 == [s \in DOMAIN component |->
                      IF s \in DOMAIN m
                      THEN Max(0, Min(100, component[s] + m[s]))
                      ELSE component[s]]
         IN [c1 EXCEPT !.lastInteraction = t]

\* the hourly rate times the hours passed, rounded: hoursPassed is ms / 3600000
DegradationChange(hourlyRate, ms) == MathRound(hourlyRate * ms, MsPerHour)

\* StatsComponent.applyDegradation; rates is an optional map stat -> hourly
\* rate, the hours passed are ms / 3600000
applyDegradation(component, rates, ms) ==
    IF rates = None \/ ms <= 0 THEN component
    ELSE LET rs == rates[1]
         IN [s \in DOMAIN component |->
               IF s \in DOMAIN rs
               THEN LET change == DegradationChange(rs[s], ms)
                    IN IF s = "hunger"
                       THEN Min(100, component[s] + change)
                       ELSE Max(0, component[s] - change)
               ELSE component[s]]

\* a plausible slip: the max bound of a tier is never looked at
meetsConditions_minOnly(stats, stat, conditions) ==
    ~("min" \in DOMAIN conditions /\ stat \in DOMAIN stats /\ stats[stat] < conditions.min)

\* one entry of a tier: conditions is a map with min and/or max
meetsConditions(stats, stat, conditions) ==
    /\ ~("min" \in DOMAIN conditions /\ stat \in DOMAIN stats /\ stats[stat] < conditions.min)
    /\ ~("max" \in DOMAIN conditions /\ stat \in DOMAIN stats /\ stats[stat] > conditions.max)

\* meetsThresholds(stats, thresholds): tier is the optional tier of a mood
RECURSIVE meetsEntries(_, _, _)
meetsEntries(stats, tier, left) ==
    IF left = {} THEN TRUE
    ELSE LET stat == CHOOSE x \in left : TRUE
         IN IF ~meetsConditions(stats, stat, tier[stat]) THEN FALSE
            ELSE meetsEntries(stats, tier, left \ {stat})

meetsThresholds(stats, tier) ==
    IF tier = None THEN FALSE
    ELSE meetsEntries(stats, tier[1], DOMAIN tier[1])

\* thresholds.happy, thresholds.neutral: undefined when the tier is not declared
Tier(thresholds, mood) ==
    IF mood \in DOMAIN thresholds THEN Some(thresholds[mood]) ELSE None

\* AppearanceComponent.updateMood: the component and the thresholds after
\* the call, and the value returned
updateMood(component, stats, thresholds) ==
    LET newMood == IF meetsThresholds(stats, Tier(thresholds, "happy")) THEN "happy"
                   ELSE IF meetsThresholds(stats, Tier(thresholds, "neutral")) THEN "neutral"
                   ELSE "sad"
    IN IF component.mood # newMood
       THEN [component |-> [component EXCEPT !.mood = newMood],
             thresholds |-> thresholds, ret |-> TRUE]
       ELSE [component |-> component, thresholds |-> thresholds, ret |-> FALSE]

DefaultGlyph == "cat"

\* graphicsMap[status] && graphicsMap[status][mood]
HasGraphic(graphicsMap, status, mood) ==
    /\ status \in DOMAIN graphicsMap
    /\ mood \in DOMAIN graphicsMap[status]

\* the graphic AppearanceComponent.updateGraphic picks for (status, mood)
ResolveGraphic(graphicsMap, status, mood) ==
    IF HasGraphic(graphicsMap, status, mood) THEN graphicsMap[status][mood]
    ELSE IF HasGraphic(graphicsMap, "idle", mood) THEN graphicsMap["idle"][mood]
    ELSE DefaultGlyph

\* AppearanceComponent.updateGraphic; graphicsMap is optional
updateGraphic(component, graphicsMap) ==
    IF graphicsMap = None THEN [component |-> component, ret |-> FALSE]
    ELSE LET newGraphic == ResolveGraphic(graphicsMap[1], component.status, component.mood)
         IN IF component.graphic # newGraphic
            THEN [component |-> [component EXCEPT !.graphic = newGraphic], ret |-> TRUE]
            ELSE [component |-> component, ret |-> FALSE]

\* AppearanceComponent.create
AppearanceComponent_create(graphic, status, mood) ==
    [graphic |-> graphic, status |-> status, mood |-> mood]

(***************************************************************************)
(* Species configurations.                                                 *)
(***************************************************************************)
Moods == {"happy", "neutral", "sad"}
Statuses == {"idle", "walking", "interacting", "sleeping", "dragging"}

DefaultThresholds ==
    [happy |-> [hunger |-> [max |-> 50], happiness |-> [min |-> 50], energy |-> [min |-> 50]],
     neutral |-> [hunger |-> [max |-> 70], happiness |-> [min |-> 30], energy |-> [min |-> 30]],
     sad |-> EmptyMap]

DefaultGraphics ==
    [idle |-> [happy |-> "idle-happy", neutral |-> "idle-neutral", sad |-> "idle-sad"],
     walking |-> [happy |-> "walking", neutral |-> "walking", sad |-> "walking"],
     interacting |-> [happy |-> "interacting", neutral |-> "interacting", sad |-> "interacting"],
     sleeping |-> [happy |-> "sleeping", neutral |-> "sleeping", sad |-> "sleeping"],
     dragging |-> [happy |-> "dragging", neutral |-> "dragging", sad |-> "dragging"]]

\* js/config/pets/defaultCat/config.js
DefaultCat ==
    [name |-> "Buddy",
     initialStats |-> [hunger |-> 50, happiness |-> 50, energy |-> 50],
     statModifiers |-> [feed |-> [hunger |-> -20, energy |-> 10],
                        play |-> [happiness |-> 20, hunger |-> 10, energy |-> -15],
                        sleep |-> [energy |-> 100],
                        walking |-> [energy |-> -1]],
     degradationRates |-> Some([hunger |-> 5, happiness |-> 5, energy |-> 3]),
     moodThresholds |-> DefaultThresholds,
     graphicsMap |-> Some(DefaultGraphics)]

\* a species whose config also declares a 'pet' modifier set, a modifier
\* that lowers happiness when petted, rates that restore instead of
\* degrade, tiers with a single bound each and a graphics map with the
\* idle row and one walking entry only
GrumpyCat ==
    [name |-> "Grumpy",
     initialStats |-> [hunger |-> 50, happiness |-> 50, energy |-> 50],
     statModifiers |-> [feed |-> [hunger |-> -20, energy |-> 10],
                        pet |-> [happiness |-> -30],
                        play |-> [happiness |-> 50, energy |-> -50],
                        sleep |-> EmptyMap],
     degradationRates |-> Some([hunger |-> -5, happiness |-> -5]),
     moodThresholds |-> [happy |-> [hunger |-> [min |-> 20, max |-> 50]],
                         neutral |-> [happiness |-> [min |-> 30]]],
     graphicsMap |-> Some([idle |-> [happy |-> "idle-happy", neutral |-> "idle-neutral"],
                           walking |-> [happy |-> "walking-happy"]])]

\* a species with a 'pet' modifier set, no degradation rates and no graphics map
LazyCat ==
    [name |-> "Lazy",
     initialStats |-> [hunger |-> 50, happiness |-> 50, energy |-> 30],
     statModifiers |-> [pet |-> [happiness |-> 10], feed |-> [hunger |-> -20, energy |-> 10]],
     degradationRates |-> None,
     moodThresholds |-> DefaultThresholds,
     graphicsMap |-> None]

PetConfigs == {DefaultCat, GrumpyCat, LazyCat}

(***************************************************************************)
(* Listeners.  A listener registered with on(eventName, callback) is a     *)
(* reaction: when eventName is emitted it calls one World operation.  The  *)
(* operation it calls runs with no further reaction (a listener that       *)
(* guards against its own recursion).                                      *)
(***************************************************************************)
NoReaction == [on |-> "none", op |-> "none", id |-> NoId, name |-> "none"]

ListenedEvents == {"entityAdded", "entityRemoved", "componentAdded", "componentRemoved"}

\* the listeners of the model: each calls one operation on entity e1 (the
\* operation that emits the event is about e1 or about another entity)
Reactions ==
    {NoReaction} \cup
    [on : ListenedEvents,
     op : {"addComponent", "removeComponent"},
     id : {"e1"}, name : {"stats"}] \cup
    [on : ListenedEvents,
     op : {"removeEntity", "createEntity"},
     id : {"e1"}, name : {"none"}]

\* the listeners that can be registered for eventName, or none
ReactionsOn(eventName) == {NoReaction} \cup {r \in Reactions : r.on = eventName}

RECURSIVE emitEvent(_, _, _, _)

\* Entity.hasComponent
hasComponent(entity, componentName) == componentName \in DOMAIN entity

\* World.indexEntityComponent
indexEntityComponent(w, entityId, componentName) ==
    LET index == IF componentName \in DOMAIN w.componentIndex
                 THEN w.componentIndex[componentName] ELSE {}
    IN [w EXCEPT !.componentIndex = Put(@, componentName, index \cup {entityId})]

\* World.removeEntityFromIndex
removeEntityFromIndex(w, entityId, componentName) ==
    IF componentName \in DOMAIN w.componentIndex
    THEN [w EXCEPT !.componentIndex[componentName] = @ \ {entityId}]
    ELSE w

\* entity.components.forEach(name => indexEntityComponent(id, name))
RECURSIVE indexAll(_, _, _)
indexAll(w, entityId, names) ==
    IF names = {} THEN w
    ELSE LET n == CHOOSE x \in names : TRUE
         IN indexAll(indexEntityComponent(w, entityId, n), entityId, names \ {n})

\* entity.components.forEach(name => removeEntityFromIndex(id, name))
RECURSIVE unindexAll(_, _, _)
unindexAll(w, entityId, names) ==
    IF names = {} THEN w
    ELSE LET n == CHOOSE x \in names : TRUE
         IN unindexAll(removeEntityFromIndex(w, entityId, n), entityId, names \ {n})

\* World.createEntity
createEntity(w, id) ==
    LET newId == IF id # NoId THEN id ELSE AutoId(w.nextEntityId)
        next == IF id # NoId THEN w.nextEntityId ELSE w.nextEntityId + 1
    IN [w EXCEPT !.entities = Put(@, newId, EmptyMap),
                 !.nextEntityId = next,
                 !.removed = @ \ {newId},
                 !.ret = newId]

\* World.addEntity; entity is [id, components]
addEntity(w, entity, r) ==
    LET w1 == [w EXCEPT !.entities = Put(@, entity.id, entity.components),
                        !.removed = @ \ {entity.id}]
        w2 == indexAll(w1, entity.id, DOMAIN entity.components)
        w3 == emitEvent(w2, "entityAdded", entity.id, r)
    IN [w3 EXCEPT !.ret = entity.id]

\* World.getEntity
getEntity(w, entityId) ==
    IF entityId \in DOMAIN w.entities THEN entityId ELSE Undefined

\* a plausible slip: the entity is never deleted from the map
removeEntity_keepsEntity(w, entityId, r) ==
    IF entityId \notin DOMAIN w.entities THEN [w EXCEPT !.ret = False]
    ELSE LET w1 == unindexAll(w, entityId, DOMAIN w.entities[entityId])
             w2 == emitEvent(w1, "entityRemoved", entityId, r)
         IN [w2 EXCEPT !.removed = @ \cup {entityId}, !.ret = True]

\* World.removeEntity
removeEntity(w, entityId, r) ==
    IF entityId \notin DOMAIN w.entities THEN [w EXCEPT !.ret = False]
    ELSE LET w1 == unindexAll(w, entityId, DOMAIN w.entities[entityId])
             w2 == emitEvent(w1, "entityRemoved", entityId, r)
             deleted == entityId \in DOMAIN w2.entities
         IN [w2 EXCEPT !.entities = Without(@, entityId),
                       !.removed = IF deleted THEN @ \cup {entityId} ELSE @,
                       !.ret = Bool(deleted)]

\* World.addComponent
addComponent(w, entityId, componentName, componentData, r) ==
    IF entityId \notin DOMAIN w.entities THEN [w EXCEPT !.ret = Null]
    ELSE LET w1 == [w EXCEPT !.entities[entityId] = Put(@, componentName, componentData)]
             w2 == indexEntityComponent(w1, entityId, componentName)
             w3 == emitEvent(w2, "componentAdded", entityId, r)
         IN [w3 EXCEPT !.ret = entityId]

\* World.removeComponent
removeComponent(w, entityId, componentName, r) ==
    IF entityId \notin DOMAIN w.entities THEN [w EXCEPT !.ret = False]
    ELSE IF ~hasComponent(w.entities[entityId], componentName)
         THEN [w EXCEPT !.ret = False]
         ELSE LET w1 == [w EXCEPT !.entities[entityId] = Without(@, componentName)]
                  w2 == removeEntityFromIndex(w1, entityId, componentName)
                  w3 == emitEvent(w2, "componentRemoved", entityId, r)
              IN [w3 EXCEPT !.ret = True]

\* a plausible slip: only the entity is checked, not the component
updateComponent_noHasCheck(w, entityId, componentName, componentData, r) ==
    IF entityId \notin DOMAIN w.entities THEN [w EXCEPT !.ret = Null]
    ELSE LET w1 == [w EXCEPT !.entities[entityId] = Put(@, componentName, componentData)]
             w2 == emitEvent(w1, "componentUpdated", entityId, r)
         IN [w2 EXCEPT !.ret = entityId]

\* World.updateComponent
updateComponent(w, entityId, componentName, componentData, r) ==
    IF entityId \notin DOMAIN w.entities THEN [w EXCEPT !.ret = Null]
    ELSE IF ~hasComponent(w.entities[entityId], componentName)
         THEN [w EXCEPT !.ret = Null]
         ELSE LET w1 == [w EXCEPT !.entities[entityId] = Put(@, componentName, componentData)]
                  w2 == emitEvent(w1, "componentUpdated", entityId, r)
              IN [w2 EXCEPT !.ret = entityId]

\* a plausible slip: the candidates of the first name are returned without
\* looking at the other names
getEntitiesWith_firstOnly(w, names) ==
    IF Len(names) = 0 THEN {}
    ELSE LET firstComponent == names[1]
             candidateIds == IF firstComponent \in DOMAIN w.componentIndex
                             THEN w.componentIndex[firstComponent] ELSE {}
         IN {entityId \in candidateIds :
                /\ entityId \in DOMAIN w.entities
                /\ hasComponent(w.entities[entityId], firstComponent)}

\* World.getEntitiesWith; names is a sequence, the result the set of ids
\* of the entities returned
getEntitiesWith(w, names) ==
    IF Len(names) = 0 THEN {}
    ELSE LET firstComponent == names[1]
             candidateIds == IF firstComponent \in DOMAIN w.componentIndex
                             THEN w.componentIndex[firstComponent] ELSE {}
         IN {entityId \in candidateIds :
                /\ entityId \in DOMAIN w.entities
                /\ \A i \in 1..Len(names) : hasComponent(w.entities[entityId], names[i])}

\* what a listener does when it is called
runListener(w, r) ==
    CASE r.op = "addComponent" -> addComponent(w, r.id, r.name, "d1", NoReaction)
      [] r.op = "removeComponent" -> removeComponent(w, r.id, r.name, NoReaction)
      [] r.op = "removeEntity" -> removeEntity(w, r.id, NoReaction)
      [] r.op = "createEntity" -> createEntity(w, r.id)
      [] OTHER -> w

\* getPetState: the pet's position, stats and appearance
getPetState(w) ==
    [x |-> w.entities["mainPet"]["position"].x,
     y |-> w.entities["mainPet"]["position"].y,
     hunger |-> w.entities["mainPet"]["stats"].hunger,
     happiness |-> w.entities["mainPet"]["stats"].happiness,
     energy |-> w.entities["mainPet"]["stats"].energy,
     lastInteraction |-> w.entities["mainPet"]["stats"].lastInteraction,
     status |-> w.entities["mainPet"]["appearance"].status,
     mood |-> w.entities["mainPet"]["appearance"].mood,
     graphic |-> w.entities["mainPet"]["appearance"].graphic]

\* notifyStateUpdate: the state sent to the display; the host's world is
\* the one with a forwarded field, and the state is taken while the pet is
\* in the world with the three components
notifyStateUpdate(w) ==
    IF /\ "forwarded" \in DOMAIN w
       /\ "mainPet" \in DOMAIN w.entities
       /\ {"position", "stats", "appearance"} \subseteq DOMAIN w.entities["mainPet"]
    THEN [w EXCEPT !.forwarded = Append(@, getPetState(w))]
    ELSE w

\* the events of the pet that setupMainProcessEventHandlers answers with
\* notifyStateUpdate, after forwarding the event itself
StateEvents == {"positionUpdated", "appearanceUpdated", "statsUpdated"}

\* World.emitEvent: the event is delivered to the listener registered for
\* it, and in the host to the handlers of setupMainProcessEventHandlers
emitEvent(w, eventName, entityId, r) ==
    LET w1 == [w EXCEPT !.emitted = Append(@, <<eventName, entityId>>)]
        w2 == IF r.on = eventName THEN runListener(w1, r) ELSE w1
    IN IF eventName \in StateEvents /\ entityId = "mainPet"
       THEN notifyStateUpdate(w2) ELSE w2

\* Entity.serialize / World.serialize: the entities as a sequence of
\* {id, components} records, and the counter
RECURSIVE serializeEntities(_, _)
serializeEntities(w, ids) ==
    IF ids = {} THEN << >>
    ELSE LET id == CHOOSE x \in ids : TRUE
         IN <<[id |-> id, components |-> w.entities[id]]>>
            \o serializeEntities(w, ids \ {id})

serialize(w) ==
    [entities |-> serializeEntities(w, DOMAIN w.entities),
     nextEntityId |-> w.nextEntityId]

\* Object.values(data.entities).forEach(d => addEntity(Entity.deserialize(d)))
RECURSIVE addEntities(_, _, _)
addEntities(w, entityData, r) ==
    IF entityData = << >> THEN w
    ELSE addEntities(addEntity(w, Head(entityData), r), Tail(entityData), r)

\* a plausible slip: the existing state is not cleared first
deserialize_noClear(w, data, r) ==
    LET w2 == addEntities(w, data.entities, r)
        w3 == IF data.nextEntityId # 0
              THEN [w2 EXCEPT !.nextEntityId = data.nextEntityId] ELSE w2
        w4 == emitEvent(w3, "worldRestored", NoId, r)
    IN [w4 EXCEPT !.ret = Undefined]

\* World.deserialize; a nextEntityId of 0 is falsy and leaves the counter
deserialize(w, data, r) ==
    LET w1 == [w EXCEPT !.entities = EmptyMap, !.componentIndex = EmptyMap]
        w2 == addEntities(w1, data.entities, r)
        w3 == IF data.nextEntityId # 0
              THEN [w2 EXCEPT !.nextEntityId = data.nextEntityId] ELSE w2
        w4 == emitEvent(w3, "worldRestored", NoId, r)
    IN [w4 EXCEPT !.ret = Undefined]

(***************************************************************************)
(* The World as a state machine: one action per World operation.           *)
(***************************************************************************)
ComponentMaps == UNION {[S -> ComponentData] : S \in SUBSET ComponentNames}

\* the pre-built entities handed to addEntity and found in snapshots
SnapshotMaps == {EmptyMap, [stats |-> "d1"], [position |-> "d1", stats |-> "d2"]}

EntityRecords == [id : EntityIds, components : SnapshotMaps]

\* serialized worlds handed to deserialize; a nextEntityId of 0 stands for
\* a snapshot without the counter
SerializedWorlds ==
    [entities : {<< >>,
                 <<[id |-> "e1", components |-> [stats |-> "d1"]]>>,
                 <<[id |-> "e1", components |-> EmptyMap],
                   [id |-> "e2", components |-> [position |-> "d1", stats |-> "d2"]]>>,
                 <<[id |-> "e2", components |-> [stats |-> "d2"]],
                   [id |-> "e1", components |-> [position |-> "d2", stats |-> "d1"]]>>},
     nextEntityId : {0, MaxNextEntityId}]

\* a world without a host around it: no systems, no species config, a
\* clock that stands still
NoHost ==
    /\ petConfig = DefaultCat
    /\ statsPetConfigs = EmptyMap
    /\ interactionsPetConfigs = EmptyMap
    /\ systems = << >>
    /\ now = 0
    /\ lastDegradationTime = 0
    /\ lastEnergyCostTime = 0
    /\ entitiesWalking = EmptyMap
    /\ timers = << >>
    /\ walkTarget = None
    /\ targetReached = 0
    /\ calls = 0
    /\ ticks = 0
    /\ loadedPlugins = << >>
    /\ eventListeners = EmptyMap
    /\ invoked = << >>
    /\ disposers = << >>
    /\ statusHistory = [writes |-> 0, stamps |-> << >>]
    /\ display = None
    /\ channel = << >>

\* the world the operations act on
World ==
    [entities |-> entities, componentIndex |-> componentIndex,
     nextEntityId |-> nextEntityId, emitted |-> << >>, ret |-> Undefined,
     removed |-> removed]

Op(op, id, name) == [op |-> op, id |-> id, name |-> name]

Becomes(w, op) ==
    /\ entities' = w.entities
    /\ componentIndex' = w.componentIndex
    /\ nextEntityId' = w.nextEntityId
    /\ emitted' = w.emitted
    /\ ret' = w.ret
    /\ removed' = w.removed
    /\ lastOp' = op
    /\ UNCHANGED hostVars

InitWorld ==
    /\ entities = EmptyMap
    /\ componentIndex = EmptyMap
    /\ nextEntityId = 1
    /\ emitted = << >>
    /\ ret = Undefined
    /\ lastOp = Op("constructor", NoId, "none")
    /\ removed = {}
    /\ NoHost

CreateEntity ==
    \E id \in EntityIds \cup {NoId} :
        /\ id = NoId => nextEntityId <= MaxNextEntityId
        /\ Becomes(createEntity(World, id), Op("createEntity", id, "none"))

AddEntity ==
    \E e \in EntityRecords, r \in ReactionsOn("entityAdded") :
        Becomes(addEntity(World, e, r), Op("addEntity", e.id, "none"))

RemoveEntity ==
    \E id \in EntityIds, r \in ReactionsOn("entityRemoved") :
        Becomes(removeEntity(World, id, r),
                [op |-> "removeEntity", id |-> id, name |-> "none", listener |-> r])

AddComponent ==
    \E id \in EntityIds, name \in ComponentNames, data \in ComponentData,
       r \in ReactionsOn("componentAdded") :
        Becomes(addComponent(World, id, name, data, r), Op("addComponent", id, name))

RemoveComponent ==
    \E id \in EntityIds, name \in ComponentNames, r \in ReactionsOn("componentRemoved") :
        Becomes(removeComponent(World, id, name, r), Op("removeComponent", id, name))

UpdateComponent ==
    \E id \in EntityIds, name \in ComponentNames, data \in ComponentData :
        Becomes(updateComponent(World, id, name, data, NoReaction), Op("updateComponent", id, name))

Deserialize ==
    \E data \in SerializedWorlds, r \in ReactionsOn("entityAdded") :
        Becomes(deserialize(World, data, r),
                [op |-> "deserialize", id |-> NoId, name |-> "none", data |-> data,
                 listener |-> r])

NextWorld ==
    \/ CreateEntity
    \/ AddEntity
    \/ RemoveEntity
    \/ AddComponent
    \/ RemoveComponent
    \/ UpdateComponent
    \/ Deserialize

SpecWorld == InitWorld /\ [][NextWorld]_vars

(***************************************************************************)
(* The component functions on their own: the stats and the appearance of   *)
(* one entity are drawn from samples, and one call of a component function *)
(* is applied to them.                                                     *)
(***************************************************************************)
MainPet == "mainPet"

HungerSamples == {0, 40, 50, 80, 98, 100}
HappinessSamples == {0, 2, 20, 50, 60}
EnergySamples == {0, 10, 50, 70}

\* the hours passed, in ms: none, negative, the 10 s of the degradation
\* interval, 0.1 h, 0.7 h, 1 h, 2 h, 20 h
ElapsedSamples ==
    {0, -MsPerHour, 10000, 360000, 2520000, MsPerHour, 2 * MsPerHour, 20 * MsPerHour}

RateSamples ==
    {None, Some([hunger |-> 5]), DefaultCat.degradationRates, GrumpyCat.degradationRates}

Stats == entities[MainPet]["stats"]
Appearance == entities[MainPet]["appearance"]

InitComponents ==
    /\ \E h \in HungerSamples, p \in HappinessSamples, e \in EnergySamples, m \in Moods :
         entities = [mainPet |->
                       [stats |-> StatsComponent_create(h, p, e, 0),
                        appearance |-> AppearanceComponent_create("idle-neutral", "idle", m)]]
    /\ componentIndex = [stats |-> {MainPet}, appearance |-> {MainPet}]
    /\ nextEntityId = 1
    /\ emitted = << >>
    /\ ret = Undefined
    /\ lastOp = Op("constructor", NoId, "none")
    /\ removed = {}
    /\ petConfig \in PetConfigs
    /\ statsPetConfigs = EmptyMap
    /\ interactionsPetConfigs = EmptyMap
    /\ systems = << >>
    /\ now = 0
    /\ lastDegradationTime = 0
    /\ lastEnergyCostTime = 0
    /\ entitiesWalking = EmptyMap
    /\ timers = << >>
    /\ walkTarget = None
    /\ targetReached = 0
    /\ calls = 0
    /\ ticks = 0
    /\ loadedPlugins = << >>
    /\ eventListeners = EmptyMap
    /\ invoked = << >>
    /\ disposers = << >>
    /\ statusHistory = [writes |-> 0, stamps |-> << >>]
    /\ display = None
    /\ channel = << >>

\* StatsComponent.applyDegradation(stats, rates, ms / 3600000)
CallApplyDegradation ==
    \E rates \in RateSamples, ms \in ElapsedSamples :
        /\ lastOp.op = "constructor"
        /\ entities' = [entities EXCEPT ![MainPet]["stats"] = applyDegradation(@, rates, ms)]
        /\ ret' = Undefined
        /\ lastOp' = [op |-> "applyDegradation", id |-> MainPet, name |-> "stats",
                      rates |-> rates, ms |-> ms]
        /\ UNCHANGED <<componentIndex, nextEntityId, emitted, removed>>
        /\ UNCHANGED hostVars

\* AppearanceComponent.updateMood(appearance, stats, petConfig.moodThresholds)
CallUpdateMood ==
    LET res == updateMood(Appearance, Stats, petConfig.moodThresholds)
    IN /\ lastOp.op = "constructor"
       /\ entities' = [entities EXCEPT ![MainPet]["appearance"] = res.component]
       /\ petConfig' = [petConfig EXCEPT !.moodThresholds = res.thresholds]
       /\ ret' = Bool(res.ret)
       /\ lastOp' = Op("updateMood", MainPet, "appearance")
       /\ UNCHANGED <<componentIndex, nextEntityId, emitted, removed>>
       /\ UNCHANGED <<statsPetConfigs, interactionsPetConfigs, systems, now,
                      lastDegradationTime, lastEnergyCostTime, entitiesWalking, timers,
                      walkTarget, targetReached, calls, ticks, loadedPlugins,
                      eventListeners, invoked, disposers, statusHistory, display,
                      channel>>

NextComponents ==
    \/ CallApplyDegradation
    \/ CallUpdateMood

SpecComponents == InitComponents /\ [][NextComponents]_vars

(***************************************************************************)
(* The host process.  Its state h is the World together with the state of  *)
(* the systems registered in it; each function below gives h after the     *)
(* call.  The events a call emits are appended to h.emitted; the host's    *)
(* listeners for them forward to the display and change nothing here.      *)
(***************************************************************************)
degradationInterval == 10000

\* the appearance refresh of StatsSystem.update and StatsSystem.applyAction:
\* updateMood and, if the mood changed, updateGraphic
updateAppearance(h, entityId, config) ==
    LET entity == h.entities[entityId]
    IN IF ~hasComponent(entity, "appearance") THEN h
       ELSE IF "moodThresholds" \notin DOMAIN config
       THEN \* updateMood reads thresholds.happy of undefined
            [h EXCEPT !.ret = Thrown]
       ELSE LET moodRes == updateMood(entity["appearance"], entity["stats"],
                                      config.moodThresholds)
                graphicRes == updateGraphic(moodRes.component, config.graphicsMap)
            IN [h EXCEPT !.entities[entityId]["appearance"] =
                   IF moodRes.ret THEN graphicRes.component ELSE moodRes.component]

\* StatsSystem.applyAction
StatsSystem_applyAction(h, entityId, actionType) ==
    IF \/ entityId \notin DOMAIN h.entities
       \/ ~hasComponent(h.entities[entityId], "stats")
       \/ ~hasComponent(h.entities[entityId], "identity")
    THEN [h EXCEPT !.ret = False]
    ELSE LET type == h.entities[entityId]["identity"].type
         IN IF \/ type \notin DOMAIN h.statsPetConfigs
               \/ "statModifiers" \notin DOMAIN h.statsPetConfigs[type]
               \/ actionType \notin DOMAIN h.statsPetConfigs[type].statModifiers
            THEN [h EXCEPT !.ret = False]
            ELSE LET modifiers == h.statsPetConfigs[type].statModifiers[actionType]
                     h1 == [h EXCEPT !.entities[entityId]["stats"] =
                               applyModifiers(@, Some(modifiers), h.now)]
                     h2 == updateAppearance(h1, entityId, h.statsPetConfigs[type])
                 IN IF h2.ret = Thrown THEN h2 ELSE [h2 EXCEPT !.ret = True]

\* entities.forEach(...) of StatsSystem.update; ms is timeSinceLastDegradation
RECURSIVE degradeEntities(_, _, _)
degradeEntities(h, ids, ms) ==
    IF ids = {} THEN h
    ELSE LET id == CHOOSE x \in ids : TRUE
             type == h.entities[id]["identity"].type
             h1 == IF /\ type \in DOMAIN h.statsPetConfigs
                      /\ h.statsPetConfigs[type].degradationRates # None
                   THEN LET config == h.statsPetConfigs[type]
                            hd == [h EXCEPT !.entities[id]["stats"] =
                                      applyDegradation(@, config.degradationRates, ms)]
                        IN updateAppearance(hd, id, config)
                   ELSE h
         IN IF h1.ret = Thrown THEN h1 ELSE degradeEntities(h1, ids \ {id}, ms)

\* StatsSystem.update
StatsSystem_update(h) ==
    LET timeSinceLastDegradation == h.now - h.lastDegradationTime
    IN IF timeSinceLastDegradation >= degradationInterval
       THEN LET h1 == degradeEntities(h, getEntitiesWith(h, <<"stats", "identity">>),
                                      timeSinceLastDegradation)
            IN IF h1.ret = Thrown THEN h1 ELSE [h1 EXCEPT !.lastDegradationTime = h.now]
       ELSE h

(***************************************************************************)
(* Positions.  The code holds x and y as floating-point pixels; here they  *)
(* are whole numbers of 1/UnitsPerPixel pixel, and walks are requested     *)
(* only between points whose distance and steps are whole in that unit     *)
(* (along an axis, or along a 3-4-5 direction), so that Math.sqrt and the  *)
(* divisions are exact.                                                    *)
(***************************************************************************)
UnitsPerPixel == 5

Px(n) == n * UnitsPerPixel

\* PositionComponent.create
PositionComponent_create(x, y) == [x |-> x, y |-> y]

\* a coordinate that is not a number (NaN, or undefined, which arithmetic
\* turns into NaN): a value no pixel coordinate takes
NaN == -1000000

IsNumber(v) == v # NaN

\* both coordinates of a point are numbers
Numeric(point) == IsNumber(point.x) /\ IsNumber(point.y)

\* position after position.x += directionX * speed, position.y += directionY *
\* speed when a coordinate of the target or of the position is NaN: the
\* distance is NaN, so both directions are
NaNPosition == [x |-> NaN, y |-> NaN]

\* the corners of a 9 x 12 pixel rectangle
WalkTargets == {PositionComponent_create(Px(x), Px(y)) : x \in {0, 9}, y \in {0, 12}}

MaxDistance == Px(15)

\* Math.sqrt(dx * dx + dy * dy)
Distance(dx, dy) == CHOOSE d \in 0..MaxDistance : d * d = dx * dx + dy * dy

\* the distance from position to target and a step of speed towards it
\* are whole numbers of units
ExactWalk(position, target, speed) ==
    LET dx == target.x - position.x
        dy == target.y - position.y
    IN \E d \in 1..MaxDistance :
          /\ d * d = dx * dx + dy * dy
          /\ (dx * speed) % d = 0
          /\ (dy * speed) % d = 0

\* position += (d / distance) * speed
StepTowards(position, target, speed) ==
    LET dx == target.x - position.x
        dy == target.y - position.y
        distance == Distance(dx, dy)
    IN [x |-> position.x + (dx * speed) \div distance,
        y |-> position.y + (dy * speed) \div distance]

\* appearance.status = status; emitEvent('appearanceUpdated', ...)
setStatus(h, entityId, status) ==
    emitEvent([h EXCEPT !.entities[entityId]["appearance"].status = status],
              "appearanceUpdated", entityId, NoReaction)

(***************************************************************************)
(* MovementSystem                                                          *)
(***************************************************************************)
\* MovementSystem.state.walkingSpeed: 2 pixels per update
walkingSpeed == Px(2)

RECURSIVE walkRequested(_, _, _)

\* the two points of a patrol
PatrolPoints == <<PositionComponent_create(0, 0), PositionComponent_create(Px(9), Px(12))>>

\* a listener of 'targetReached' that sends the pet on: to the first patrol
\* point, or to the second when it stands on the first
patrolTarget(position) ==
    IF position = PatrolPoints[1] THEN PatrolPoints[2] ELSE PatrolPoints[1]

\* world.emitEvent('targetReached', ...): the event, then the listener
\* registered for it, which requests the next walk
emitTargetReached(h, entityId) ==
    LET h1 == emitEvent(h, "targetReached", entityId, NoReaction)
    IN IF h.onTargetReached = "patrol"
       THEN walkRequested(h1, entityId, patrolTarget(h1.entities[entityId]["position"]))
       ELSE h1

\* MovementSystem.startWalking
MovementSystem_startWalking(h, entityId, target) ==
    IF \/ entityId \notin DOMAIN h.entities
       \/ ~hasComponent(h.entities[entityId], "position")
       \/ ~hasComponent(h.entities[entityId], "appearance")
    THEN [h EXCEPT !.ret = False]
    ELSE LET h1 == [h EXCEPT !.entitiesWalking = Put(@, entityId, target)]
         IN [setStatus(h1, entityId, "walking") EXCEPT !.ret = True]

\* MovementSystem.stopWalking
MovementSystem_stopWalking(h, entityId) ==
    LET wasWalking == entityId \in DOMAIN h.entitiesWalking
        h1 == [h EXCEPT !.entitiesWalking = Without(@, entityId)]
        h2 == IF /\ wasWalking
                 /\ entityId \in DOMAIN h.entities
                 /\ hasComponent(h.entities[entityId], "appearance")
              THEN setStatus(h1, entityId, "idle")
              ELSE h1
    IN [h2 EXCEPT !.ret = Bool(wasWalking)]

\* the body of entitiesWalking.forEach in MovementSystem.update
MovementSystem_updateEntity(h, entityId) ==
    IF entityId \notin DOMAIN h.entities
    THEN [h EXCEPT !.entitiesWalking = Without(@, entityId)]
    ELSE IF ~hasComponent(h.entities[entityId], "position") THEN h
    ELSE LET target == h.entitiesWalking[entityId]
             position == h.entities[entityId]["position"]
             distanceToTarget == Distance(target.x - position.x, target.y - position.y)
         IN IF ~Numeric(target) \/ ~Numeric(position)
            THEN \* distanceToTarget is NaN and NaN < walkingSpeed is false
                 LET h1 == [h EXCEPT !.entities[entityId]["position"] = NaNPosition]
                 IN emitEvent(h1, "positionUpdated", entityId, NoReaction)
            ELSE IF distanceToTarget < walkingSpeed
            THEN LET h1 == [h EXCEPT !.entities[entityId]["position"] =
                               [@ EXCEPT !.x = target.x, !.y = target.y]]
                     h2 == MovementSystem_stopWalking(h1, entityId)
                 IN emitTargetReached(h2, entityId)
            ELSE LET h1 == [h EXCEPT !.entities[entityId]["position"] =
                               StepTowards(@, target, walkingSpeed)]
                 IN emitEvent(h1, "positionUpdated", entityId, NoReaction)

\* MovementSystem.update: Map.forEach visits an entry again when it was
\* deleted and set again during its visit (an arrival whose listener
\* requested the next walk)
RECURSIVE MovementSystem_updateEntities(_, _)
MovementSystem_updateEntities(h, ids) ==
    IF ids = {} THEN h
    ELSE LET id == CHOOSE x \in ids : TRUE
             h1 == MovementSystem_updateEntity(h, id)
             again == /\ id \in DOMAIN h1.entitiesWalking
                      /\ h1.entitiesWalking[id] # h.entitiesWalking[id]
         IN MovementSystem_updateEntities(h1, IF again THEN ids ELSE ids \ {id})

MovementSystem_update(h) == MovementSystem_updateEntities(h, DOMAIN h.entitiesWalking)

(***************************************************************************)
(* The walking plugin's system                                             *)
(***************************************************************************)
\* config.walkSpeed: 2 pixels per update
walkSpeed == Px(2)
energyCostInterval == 5000
energyCost == 1
\* startWalking: if (stats.energy < 10) return false
MinWalkEnergy == 10

WalkState == "walking.walkState"

\* walking system startWalking
WalkingSystem_startWalking(h, entityId, target) ==
    IF entityId \notin DOMAIN h.entities THEN [h EXCEPT !.ret = False]
    ELSE IF /\ hasComponent(h.entities[entityId], "stats")
            /\ h.entities[entityId]["stats"].energy < MinWalkEnergy
    THEN [h EXCEPT !.ret = False]
    ELSE LET h1 == IF hasComponent(h.entities[entityId], WalkState)
                   THEN [h EXCEPT !.entities[entityId][WalkState] =
                            [@ EXCEPT !.isWalking = TRUE, !.target = Some(target)]]
                   ELSE addComponent(h, entityId, WalkState,
                                     [isWalking |-> TRUE, target |-> Some(target),
                                      lastTargetReached |-> None], NoReaction)
             h2 == IF hasComponent(h1.entities[entityId], "appearance")
                   THEN setStatus(h1, entityId, "walking") ELSE h1
             h3 == emitEvent(h2, "walkingStarted", entityId, NoReaction)
         IN [h3 EXCEPT !.ret = True]

\* walking system stopWalking
WalkingSystem_stopWalking(h, entityId) ==
    IF entityId \notin DOMAIN h.entities THEN [h EXCEPT !.ret = False]
    ELSE IF ~hasComponent(h.entities[entityId], WalkState) THEN [h EXCEPT !.ret = False]
    ELSE LET wasWalking == h.entities[entityId][WalkState].isWalking
             h1 == [h EXCEPT !.entities[entityId][WalkState] =
                       [@ EXCEPT !.isWalking = FALSE, !.target = None]]
             h2 == IF hasComponent(h1.entities[entityId], "appearance")
                   THEN setStatus(h1, entityId, "idle") ELSE h1
             h3 == IF wasWalking THEN emitEvent(h2, "walkingStopped", entityId, NoReaction)
                   ELSE h2
         IN [h3 EXCEPT !.ret = Bool(wasWalking)]

\* the energy cost of a step: every energyCostInterval ms
WalkingSystem_energyCost(h, entityId) ==
    IF h.now - h.lastEnergyCostTime >= energyCostInterval
    THEN LET h1 == IF hasComponent(h.entities[entityId], "stats")
                   THEN LET hs == [h EXCEPT !.entities[entityId]["stats"].energy =
                                      Max(0, @ - energyCost)]
                            he == emitEvent(hs, "statsUpdated", entityId, NoReaction)
                        IN IF he.entities[entityId]["stats"].energy <= 0
                           THEN WalkingSystem_stopWalking(he, entityId)
                           ELSE he
                   ELSE h
         IN [h1 EXCEPT !.lastEnergyCostTime = h.now]
    ELSE h

\* the body of walkingEntities.forEach in the walking system's update
WalkingSystem_updateEntity(h, entityId) ==
    LET walkState == h.entities[entityId][WalkState]
        position == h.entities[entityId]["position"]
    IN IF ~walkState.isWalking \/ walkState.target = None THEN h
       ELSE LET target == walkState.target[1]
                distance == Distance(target.x - position.x, target.y - position.y)
            IN IF ~Numeric(target) \/ ~Numeric(position)
               THEN \* distance is NaN and NaN < walkSpeed is false
                    LET h1 == [h EXCEPT !.entities[entityId]["position"] = NaNPosition]
                        h2 == emitEvent(h1, "positionUpdated", entityId, NoReaction)
                    IN WalkingSystem_energyCost(h2, entityId)
               ELSE IF distance < walkSpeed
               THEN LET h1 == [h EXCEPT !.entities[entityId]["position"] =
                                  [@ EXCEPT !.x = target.x, !.y = target.y],
                               !.entities[entityId][WalkState] =
                                  [@ EXCEPT !.lastTargetReached = Some(target),
                                            !.target = None]]
                        h2 == emitTargetReached(h1, entityId)
                    IN WalkingSystem_stopWalking(h2, entityId)
               ELSE LET h1 == [h EXCEPT !.entities[entityId]["position"] =
                                  StepTowards(@, target, walkSpeed)]
                        h2 == emitEvent(h1, "positionUpdated", entityId, NoReaction)
                    IN WalkingSystem_energyCost(h2, entityId)

\* the walking system's update
RECURSIVE WalkingSystem_updateEntities(_, _)
WalkingSystem_updateEntities(h, ids) ==
    IF ids = {} THEN h
    ELSE LET id == CHOOSE x \in ids : TRUE
         IN WalkingSystem_updateEntities(WalkingSystem_updateEntity(h, id), ids \ {id})

WalkingSystem_update(h) ==
    WalkingSystem_updateEntities(h, getEntitiesWith(h, <<WalkState, "position">>))

(***************************************************************************)
(* The interactions plugin's system                                        *)
(***************************************************************************)
InteractionState == "interactions.interactionState"

\* the delay of the status restore: setTimeout(..., 2000)
RestoreDelay == 2000

TrackedInteractions == {"pet", "dance", "trick", "treat"}

\* handlePet
InteractionsSystem_handlePet(h, entityId, config) ==
    IF "pet" \in DOMAIN config.statModifiers
    THEN LET pet == config.statModifiers["pet"]
             happinessBoost == IF "happiness" \in DOMAIN pet /\ pet["happiness"] # 0
                               THEN pet["happiness"] ELSE 5
             h1 == [h EXCEPT !.entities[entityId]["stats"].happiness =
                       Min(100, @ + happinessBoost)]
             h2 == emitEvent(h1, "statsUpdated", entityId, NoReaction)
             h3 == emitEvent(h2, "interactionApplied", entityId, NoReaction)
         IN [h3 EXCEPT !.ret = True]
    ELSE [h EXCEPT !.ret = False]

\* the fallback of handleCustomInteraction: the modifiers applied directly
applyDirectly(stats, modifiers) ==
    [s \in DOMAIN stats |->
        IF s \in DOMAIN modifiers THEN Max(0, Min(100, stats[s] + modifiers[s]))
        ELSE stats[s]]

\* handleCustomInteraction
InteractionsSystem_handleCustomInteraction(h, entityId, interactionType, config) ==
    IF interactionType \notin DOMAIN config.statModifiers THEN [h EXCEPT !.ret = False]
    ELSE LET modifiers == config.statModifiers[interactionType]
         IN IF \E i \in 1..Len(h.systems) : h.systems[i] = "stats"
            THEN LET h1 == StatsSystem_applyAction(h, entityId, interactionType)
                 IN IF h1.ret = True
                    THEN [emitEvent(h1, "interactionApplied", entityId, NoReaction)
                            EXCEPT !.ret = True]
                    ELSE IF h1.ret = Thrown THEN h1
                    ELSE [h1 EXCEPT !.ret = False]
            ELSE LET stats == h.entities[entityId]["stats"]
                     anyEffectApplied == (DOMAIN modifiers) \cap (DOMAIN stats) # {}
                 IN IF anyEffectApplied
                    THEN LET h1 == [h EXCEPT !.entities[entityId]["stats"] =
                                       applyDirectly(@, modifiers)]
                             h2 == emitEvent(h1, "statsUpdated", entityId, NoReaction)
                             h3 == emitEvent(h2, "interactionApplied", entityId, NoReaction)
                         IN [h3 EXCEPT !.ret = True]
                    ELSE [h EXCEPT !.ret = False]

\* handleInteraction
InteractionsSystem_handleInteraction(h, entityId, interactionType) ==
    IF entityId \notin DOMAIN h.entities THEN [h EXCEPT !.ret = False]
    ELSE IF \/ ~hasComponent(h.entities[entityId], "stats")
            \/ ~hasComponent(h.entities[entityId], "identity")
    THEN [h EXCEPT !.ret = False]
    ELSE IF h.entities[entityId]["identity"].type \notin DOMAIN h.interactionsPetConfigs
    THEN [h EXCEPT !.ret = False]
    ELSE LET config == h.interactionsPetConfigs[h.entities[entityId]["identity"].type]
             h1 == IF hasComponent(h.entities[entityId], InteractionState) THEN h
                   ELSE addComponent(h, entityId, InteractionState,
                                     [lastInteraction |-> None,
                                      interactionCount |->
                                          [t \in TrackedInteractions |-> 0]],
                                     NoReaction)
             h2 == [h1 EXCEPT !.entities[entityId][InteractionState] =
                       [lastInteraction |->
                            Some([type |-> interactionType, timestamp |-> h.now]),
                        interactionCount |->
                            [t \in TrackedInteractions |->
                                IF t = interactionType THEN @.interactionCount[t] + 1
                                ELSE @.interactionCount[t]]]]
             h3 == IF hasComponent(h2.entities[entityId], "appearance")
                   THEN LET originalStatus == h2.entities[entityId]["appearance"].status
                            hs == setStatus(h2, entityId, "interacting")
                        IN [hs EXCEPT !.timers =
                               Append(@, [at |-> h.now + RestoreDelay,
                                          entityId |-> entityId,
                                          originalStatus |-> originalStatus])]
                   ELSE h2
         IN IF interactionType = "pet"
            THEN InteractionsSystem_handlePet(h3, entityId, config)
            ELSE InteractionsSystem_handleCustomInteraction(h3, entityId,
                                                            interactionType, config)

\* a plausible slip: the status before the interaction was never saved, and
\* the timer writes undefined
restoreStatus_noOriginal(h, timer) ==
    IF /\ timer.entityId \in DOMAIN h.entities
       /\ hasComponent(h.entities[timer.entityId], "appearance")
       /\ h.entities[timer.entityId]["appearance"].status = "interacting"
    THEN setStatus(h, timer.entityId, Undefined)
    ELSE h

\* a plausible slip: the timer restores the saved status without looking at
\* the current one
restoreStatus_unguarded(h, timer) ==
    IF /\ timer.entityId \in DOMAIN h.entities
       /\ hasComponent(h.entities[timer.entityId], "appearance")
    THEN setStatus(h, timer.entityId, timer.originalStatus)
    ELSE h

\* a plausible slip: the timer compares the current status with the saved
\* one instead of 'interacting'
restoreStatus_comparesSaved(h, timer) ==
    IF /\ timer.entityId \in DOMAIN h.entities
       /\ hasComponent(h.entities[timer.entityId], "appearance")
       /\ h.entities[timer.entityId]["appearance"].status = timer.originalStatus
    THEN setStatus(h, timer.entityId, timer.originalStatus)
    ELSE h

\* the callback of handleInteraction's setTimeout
restoreStatus(h, timer) ==
    IF /\ timer.entityId \in DOMAIN h.entities
       /\ hasComponent(h.entities[timer.entityId], "appearance")
       /\ h.entities[timer.entityId]["appearance"].status = "interacting"
    THEN setStatus(h, timer.entityId, timer.originalStatus)
    ELSE h

(***************************************************************************)
(* Direct position updates and dragging: MovementSystem and the dragging   *)
(* plugin's system                                                         *)
(***************************************************************************)
\* MovementSystem.updateEntityPosition
MovementSystem_updateEntityPosition(h, entityId, x, y) ==
    IF \/ entityId \notin DOMAIN h.entities
       \/ ~hasComponent(h.entities[entityId], "position")
    THEN [h EXCEPT !.ret = False]
    ELSE LET h1 == [h EXCEPT !.entities[entityId]["position"] =
                       [@ EXCEPT !.x = x, !.y = y]]
         IN [emitEvent(h1, "positionUpdated", entityId, NoReaction) EXCEPT !.ret = True]

\* MovementSystem.startDragging
MovementSystem_startDragging(h, entityId) ==
    IF \/ entityId \notin DOMAIN h.entities
       \/ ~hasComponent(h.entities[entityId], "appearance")
    THEN [h EXCEPT !.ret = False]
    ELSE LET h1 == MovementSystem_stopWalking(h, entityId)
         IN [setStatus(h1, entityId, "dragging") EXCEPT !.ret = True]

\* MovementSystem.stopDragging
MovementSystem_stopDragging(h, entityId) ==
    IF \/ entityId \notin DOMAIN h.entities
       \/ ~hasComponent(h.entities[entityId], "appearance")
    THEN [h EXCEPT !.ret = False]
    ELSE [setStatus(h, entityId, "idle") EXCEPT !.ret = True]

DragState == "dragging.dragState"

\* dragging system startDragging
DraggingSystem_startDragging(h, entityId) ==
    IF entityId \notin DOMAIN h.entities THEN [h EXCEPT !.ret = False]
    ELSE LET h1 == IF hasComponent(h.entities[entityId], "appearance")
                   THEN setStatus(h, entityId, "dragging") ELSE h
             h2 == IF hasComponent(h1.entities[entityId], DragState)
                   THEN [h1 EXCEPT !.entities[entityId][DragState].isDragging = TRUE]
                   ELSE addComponent(h1, entityId, DragState,
                                     [isDragging |-> TRUE,
                                      lastPosition |-> PositionComponent_create(0, 0)],
                                     NoReaction)
             h3 == emitEvent(h2, "draggingStarted", entityId, NoReaction)
         IN [h3 EXCEPT !.ret = True]

\* dragging system stopDragging
DraggingSystem_stopDragging(h, entityId) ==
    IF entityId \notin DOMAIN h.entities THEN [h EXCEPT !.ret = False]
    ELSE LET h1 == IF hasComponent(h.entities[entityId], "appearance")
                   THEN setStatus(h, entityId, "idle") ELSE h
             h2 == IF hasComponent(h1.entities[entityId], DragState)
                   THEN [h1 EXCEPT !.entities[entityId][DragState].isDragging = FALSE]
                   ELSE h1
             h3 == emitEvent(h2, "draggingStopped", entityId, NoReaction)
         IN [h3 EXCEPT !.ret = True]

(***************************************************************************)
(* World.update, World.unregisterSystem and the host's own functions       *)
(***************************************************************************)
\* system.update(deltaTime, world) of the system registered under name
systemUpdate(h, name) ==
    CASE name = "stats" -> StatsSystem_update(h)
      [] name = "movement" -> MovementSystem_update(h)
      [] name = "walking.system" -> WalkingSystem_update(h)
      [] OTHER -> h

\* World.update: every registered system, in registration order
RECURSIVE updateFrom(_, _)
updateFrom(h, i) ==
    IF i > Len(h.systems) \/ h.ret = Thrown THEN h
    ELSE updateFrom(systemUpdate(h, h.systems[i]), i + 1)

update(h) == updateFrom(h, 1)

\* World.unregisterSystem
unregisterSystem(h, systemName) ==
    IF \E i \in 1..Len(h.systems) : h.systems[i] = systemName
    THEN [h EXCEPT !.systems = SelectSeq(@, LAMBDA n : n # systemName), !.ret = True]
    ELSE [h EXCEPT !.ret = False]

\* the listeners of 'configLoaded': StatsSystem's, and the interactions
\* system's once the plugin is loaded
configLoaded(h, type, config) ==
    LET h1 == emitEvent(h, "configLoaded", NoId, NoReaction)
        h2 == [h1 EXCEPT !.statsPetConfigs = Put(@, type, config)]
    IN IF \E i \in 1..Len(h.systems) : h.systems[i] = "interactions.system"
       THEN [h2 EXCEPT !.interactionsPetConfigs = Put(@, type, config)]
       ELSE h2

\* the listeners of 'walkRequested': MovementSystem's, then the walking
\* system's if the plugin is loaded
walkRequested(h, entityId, target) ==
    LET h1 == emitEvent(h, "walkRequested", entityId, NoReaction)
        h2 == MovementSystem_startWalking(h1, entityId, target)
    IN IF \E i \in 1..Len(h.systems) : h.systems[i] = "walking.system"
       THEN WalkingSystem_startWalking(h2, entityId, target)
       ELSE h2

\* the listener of 'positionUpdateRequested': MovementSystem's
positionUpdateRequested(h, entityId, x, y) ==
    MovementSystem_updateEntityPosition(
        emitEvent(h, "positionUpdateRequested", entityId, NoReaction), entityId, x, y)

\* the listeners of 'stopWalkRequested'
stopWalkRequested(h, entityId) ==
    LET h1 == emitEvent(h, "stopWalkRequested", entityId, NoReaction)
        h2 == MovementSystem_stopWalking(h1, entityId)
    IN IF \E i \in 1..Len(h.systems) : h.systems[i] = "walking.system"
       THEN WalkingSystem_stopWalking(h2, entityId)
       ELSE h2

\* system names contains name
Registered(h, name) == \E i \in 1..Len(h.systems) : h.systems[i] = name

\* the listeners of 'dragStarted': MovementSystem's, then the dragging
\* system's if the plugin is loaded
dragStarted(h, entityId) ==
    LET h1 == emitEvent(h, "dragStarted", entityId, NoReaction)
        h2 == MovementSystem_startDragging(h1, entityId)
    IN IF Registered(h, "dragging.system")
       THEN DraggingSystem_startDragging(h2, entityId)
       ELSE h2

\* the listeners of 'dragEnded'
dragEnded(h, entityId) ==
    LET h1 == emitEvent(h, "dragEnded", entityId, NoReaction)
        h2 == MovementSystem_stopDragging(h1, entityId)
    IN IF Registered(h, "dragging.system")
       THEN DraggingSystem_stopDragging(h2, entityId)
       ELSE h2

\* integration applyAction
applyAction(h, actionType) ==
    LET h1 == StatsSystem_applyAction(h, MainPet, actionType)
    IN IF h1.ret = True
       THEN [notifyStateUpdate(emitEvent(h1, "actionApplied", MainPet, NoReaction))
               EXCEPT !.ret = True]
       ELSE h1

\* IdentityComponent.create
IdentityComponent_create(name, type, t) == [name |-> name, type |-> type, created |-> t]

\* config.currentPetType
CurrentPetType == "defaultCat"

\* value || fallback, for a number
OrElse(value, fallback) == IF value = 0 THEN fallback ELSE value

\* createPetEntity
createPetEntity(h, config) ==
    LET h1 == createEntity(h, MainPet)
        h2 == addComponent(h1, MainPet, "identity",
                           IdentityComponent_create(config.name, CurrentPetType, h.now),
                           NoReaction)
        h3 == addComponent(h2, MainPet, "position", PositionComponent_create(0, 0),
                           NoReaction)
        h4 == addComponent(h3, MainPet, "stats",
                           StatsComponent_create(OrElse(config.initialStats.hunger, 50),
                                                 OrElse(config.initialStats.happiness, 50),
                                                 OrElse(config.initialStats.energy, 50),
                                                 h.now),
                           NoReaction)
        initialGraphic == IF /\ config.graphicsMap # None
                             /\ HasGraphic(config.graphicsMap[1], "idle", "neutral")
                          THEN config.graphicsMap[1]["idle"]["neutral"]
                          ELSE DefaultGlyph
    IN addComponent(h4, MainPet, "appearance",
                    AppearanceComponent_create(initialGraphic, "idle", "neutral"),
                    NoReaction)

\* the systems initializeMainProcess registers itself
CoreSystems == <<"stats", "movement", "contextMenu">>

\* the systems the default activePlugins register, in order
DefaultPlugins ==
    <<"coreDisplay.system", "walking.system", "dragging.system", "interactions.system">>

\* activePlugins without the walking plugin
PluginsWithoutWalking == <<"coreDisplay.system", "dragging.system", "interactions.system">>

\* initializeMainProcess at time t: the core systems are registered and
\* initialised, configLoaded is emitted, then the plugins are loaded, then
\* the pet is created
initializeMainProcess(config, activePlugins, t) ==
    LET h0 == [entities |-> EmptyMap, componentIndex |-> EmptyMap, nextEntityId |-> 1,
               emitted |-> << >>, ret |-> Undefined, removed |-> {},
               statsPetConfigs |-> EmptyMap, interactionsPetConfigs |-> EmptyMap,
               systems |-> CoreSystems, now |-> t, lastDegradationTime |-> t,
               lastEnergyCostTime |-> 0, entitiesWalking |-> EmptyMap,
               timers |-> << >>, forwarded |-> << >>,
               onTargetReached |-> "none"]
        h1 == configLoaded(h0, CurrentPetType, config)
        h2 == [h1 EXCEPT !.systems = @ \o activePlugins, !.lastEnergyCostTime = t]
    IN createPetEntity(h2, config)

(***************************************************************************)
(* The host as a state machine: the requests the display bridge delivers,  *)
(* the update loop's ticks and the timers.                                 *)
(***************************************************************************)
\* Date.now() when initializeMainProcess runs
StartTime == 1000

Host ==
    [entities |-> entities, componentIndex |-> componentIndex,
     nextEntityId |-> nextEntityId, emitted |-> << >>, ret |-> Undefined,
     removed |-> removed, statsPetConfigs |-> statsPetConfigs,
     interactionsPetConfigs |-> interactionsPetConfigs, systems |-> systems,
     now |-> now, lastDegradationTime |-> lastDegradationTime,
     lastEnergyCostTime |-> lastEnergyCostTime, entitiesWalking |-> entitiesWalking,
     timers |-> timers, forwarded |-> << >>, onTargetReached |-> "none"]

CountEvents(events, eventName) ==
    Cardinality({i \in 1..Len(events) : events[i][1] = eventName})

\* the state after a call that left the host as h; counted is 1 for a request
HostBecomes(h, op, counted) ==
    /\ entities' = h.entities
    /\ componentIndex' = h.componentIndex
    /\ nextEntityId' = h.nextEntityId
    /\ emitted' = h.emitted
    /\ ret' = h.ret
    /\ removed' = h.removed
    /\ statsPetConfigs' = h.statsPetConfigs
    /\ interactionsPetConfigs' = h.interactionsPetConfigs
    /\ systems' = h.systems
    /\ now' = h.now
    /\ lastDegradationTime' = h.lastDegradationTime
    /\ lastEnergyCostTime' = h.lastEnergyCostTime
    /\ entitiesWalking' = h.entitiesWalking
    /\ timers' = h.timers
    /\ lastOp' = op
    /\ walkTarget' = IF op.op = "walkRequested" THEN Some(op.target)
                      ELSE IF op.op = "stopWalkRequested" THEN None
                      ELSE walkTarget
    /\ targetReached' = (IF op.op = "walkRequested" THEN 0 ELSE targetReached)
                            + CountEvents(h.emitted, "targetReached")
    /\ calls' = calls + counted
    /\ ticks' = IF op.op = "update" THEN ticks + 1 ELSE ticks
    /\ statusHistory' =
          LET writes == statusHistory.writes + CountEvents(h.emitted, "appearanceUpdated")
          IN [writes |-> writes,
              stamps |-> IF Len(h.timers) < Len(timers) THEN Tail(statusHistory.stamps)
                         ELSE IF Len(h.timers) > Len(timers)
                              THEN Append(statusHistory.stamps, writes)
                              ELSE statusHistory.stamps]
    /\ channel' = IF display = None THEN channel ELSE channel \o h.forwarded
    /\ UNCHANGED <<petConfig, loadedPlugins, eventListeners, invoked, disposers, display>>

InitHostWith(config, activePlugins) ==
    LET h == initializeMainProcess(config, activePlugins, StartTime)
    IN /\ entities = h.entities
       /\ componentIndex = h.componentIndex
       /\ nextEntityId = h.nextEntityId
       /\ emitted = h.emitted
       /\ ret = Undefined
       /\ removed = {}
       /\ statsPetConfigs = h.statsPetConfigs
       /\ interactionsPetConfigs = h.interactionsPetConfigs
       /\ systems = h.systems
       /\ now = h.now
       /\ lastDegradationTime = h.lastDegradationTime
       /\ lastEnergyCostTime = h.lastEnergyCostTime
       /\ entitiesWalking = h.entitiesWalking
       /\ timers = h.timers
       /\ lastOp = Op("initializeMainProcess", MainPet, "none")
       /\ petConfig = config
       /\ walkTarget = None
       /\ targetReached = 0
       /\ calls = 0
       /\ ticks = 0
       /\ loadedPlugins = << >>
       /\ eventListeners = EmptyMap
       /\ invoked = << >>
       /\ disposers = << >>
       /\ statusHistory = [writes |-> 0, stamps |-> << >>]
       /\ display = None
       /\ channel = << >>

Position == entities[MainPet]["position"]

\* no system is walking the pet
WalkIdle ==
    /\ MainPet \notin DOMAIN entitiesWalking
    /\ hasComponent(entities[MainPet], WalkState) => ~entities[MainPet][WalkState].isWalking

\* the walk targets the systems hold for the pet
StoredTargets ==
    (IF MainPet \in DOMAIN entitiesWalking THEN {entitiesWalking[MainPet]} ELSE {})
    \cup (IF /\ hasComponent(entities[MainPet], WalkState)
              /\ entities[MainPet][WalkState].target # None
           THEN {entities[MainPet][WalkState].target[1]} ELSE {})

\* applyAction(actionType), delivered by the bridge
ApplyAction(actionTypes, maxCalls) ==
    \E actionType \in actionTypes :
        /\ calls < maxCalls
        /\ HostBecomes(applyAction(Host, actionType),
                       Op("applyAction", MainPet, actionType), 1)

\* emitEvent('interactionRequested', {entityId: 'mainPet', interactionType})
InteractionRequested(interactionTypes, maxCalls) ==
    \E interactionType \in interactionTypes :
        /\ calls < maxCalls
        /\ HostBecomes(InteractionsSystem_handleInteraction(
                           emitEvent(Host, "interactionRequested", MainPet, NoReaction),
                           MainPet, interactionType),
                       Op("handleInteraction", MainPet, interactionType), 1)

\* emitEvent('configLoaded', ...) with the species config, after the plugins are loaded
ConfigLoaded ==
    /\ interactionsPetConfigs = EmptyMap
    /\ HostBecomes(configLoaded(Host, CurrentPetType, petConfig),
                   Op("configLoaded", NoId, "none"), 0)

\* world.unregisterSystem('stats')
UnregisterStats ==
    /\ \E i \in 1..Len(systems) : systems[i] = "stats"
    /\ HostBecomes(unregisterSystem(Host, "stats"), Op("unregisterSystem", NoId, "stats"), 0)

\* startWalking(targetX, targetY), delivered by the bridge while no walk is
\* in progress, for a target the pet is not at
WalkRequested(targets, maxCalls) ==
    \E target \in targets :
        /\ calls < maxCalls
        /\ WalkIdle
        /\ ExactWalk(Position, target, walkingSpeed)
        /\ HostBecomes(walkRequested(Host, MainPet, target),
                       [op |-> "walkRequested", id |-> MainPet, name |-> "none",
                        target |-> target], 1)

\* stopWalking(), delivered by the bridge
StopWalkRequested(maxCalls) ==
    /\ calls < maxCalls
    /\ HostBecomes(stopWalkRequested(Host, MainPet), Op("stopWalkRequested", MainPet, "none"), 1)

\* one pass of the update loop, delay ms after the previous one
Tick(delay, maxTicks) ==
    /\ ticks < maxTicks
    /\ HostBecomes(update([Host EXCEPT !.now = now + delay]), Op("update", NoId, "none"), 0)

\* a status restore timer of handleInteraction fires
StatusRestoreTimer ==
    /\ timers # << >>
    /\ now >= Head(timers).at
    /\ HostBecomes(restoreStatus([Host EXCEPT !.timers = Tail(@)], Head(timers)),
                   Op("restoreStatus", MainPet, "none"), 0)

(***************************************************************************)
(* The host with the default plugins, for each species config: requests,   *)
(* interactions, and update passes that come late (5 s, or an hour after   *)
(* the machine was suspended).                                             *)
(***************************************************************************)
\* the requests delivered in a run
MaxCalls == 2
\* the passes of the update loop in a run
MaxTicks == 3

HostActionTypes == {"feed", "play", "sleep", "pet"}

\* the pet walks between two opposite corners
HostWalkTargets == {t \in WalkTargets : (t.x = 0) = (t.y = 0)}

HostDelays == {energyCostInterval, MsPerHour}

InitHost == \E config \in PetConfigs : InitHostWith(config, DefaultPlugins)

NextHost ==
    \/ ApplyAction(HostActionTypes, MaxCalls)
    \/ InteractionRequested(HostActionTypes, MaxCalls)
    \/ ConfigLoaded
    \/ UnregisterStats
    \/ WalkRequested(HostWalkTargets, MaxCalls)
    \/ StopWalkRequested(MaxCalls)
    \/ \E delay \in HostDelays : Tick(delay, MaxTicks)
    \/ StatusRestoreTimer

SpecHost == InitHost /\ [][NextHost]_vars

(***************************************************************************)
(* The host walking the pet: walk requests between the corners, the        *)
(* update loop ticking every 100 ms, with and without the walking plugin   *)
(* among the active plugins.                                               *)
(***************************************************************************)
\* setTimeout(updateLoop, 100)
UpdateDelay == 100

\* the walk and stop requests delivered in a run
MaxWalkCalls == 2
\* the passes of the update loop in a run
MaxWalkTicks == 10

InitWalk ==
    \E config \in {DefaultCat, LazyCat}, plugins \in {DefaultPlugins, PluginsWithoutWalking} :
        InitHostWith(config, plugins)

NextWalk ==
    \/ WalkRequested(WalkTargets, MaxWalkCalls)
    \/ StopWalkRequested(MaxWalkCalls)
    \/ Tick(UpdateDelay, MaxWalkTicks)

SpecWalk == InitWalk /\ [][NextWalk]_vars

(***************************************************************************)
(* The host left alone: no request is delivered, the update loop ticks     *)
(* every 100 ms for twelve minutes.                                        *)
(***************************************************************************)
\* the passes of the update loop in a run: 12 minutes of 100 ms ticks
MaxDecayTicks == 7200

InitDecay == \E config \in PetConfigs : InitHostWith(config, DefaultPlugins)

NextDecay == Tick(UpdateDelay, MaxDecayTicks)

SpecDecay == InitDecay /\ [][NextDecay]_vars

(***************************************************************************)
(* The operations called one by one: the World's entity and component      *)
(* operations and the start and stop operations of the systems, for the    *)
(* pet and for an id no entity has, while the pet may be removed from the  *)
(* world and the update loop ticks.                                        *)
(***************************************************************************)
\* an id that is never added to the world
Ghost == "ghost"

OperationIds == {MainPet, Ghost}

WorldOperations ==
    {"getEntity", "removeEntity", "addComponent", "removeComponent", "updateComponent"}

SystemOperations ==
    {"StatsSystem.applyAction", "MovementSystem.updateEntityPosition",
     "MovementSystem.startWalking", "MovementSystem.stopWalking",
     "MovementSystem.startDragging", "MovementSystem.stopDragging",
     "walking.startWalking", "walking.stopWalking",
     "dragging.startDragging", "dragging.stopDragging"}

\* the target of the walks started here
OperationTarget == PositionComponent_create(Px(9), 0)

\* the operation called for entityId, with arguments of its kind
callOperation(h, op, entityId) ==
    CASE op = "getEntity" -> [h EXCEPT !.ret = getEntity(h, entityId)]
      [] op = "removeEntity" -> removeEntity(h, entityId, NoReaction)
      [] op = "addComponent" -> addComponent(h, entityId, "note", "d1", NoReaction)
      [] op = "removeComponent" -> removeComponent(h, entityId, "note", NoReaction)
      [] op = "updateComponent" -> updateComponent(h, entityId, "note", "d2", NoReaction)
      [] op = "StatsSystem.applyAction" -> StatsSystem_applyAction(h, entityId, "feed")
      [] op = "MovementSystem.updateEntityPosition" ->
            MovementSystem_updateEntityPosition(h, entityId, 0, 0)
      [] op = "MovementSystem.startWalking" ->
            MovementSystem_startWalking(h, entityId, OperationTarget)
      [] op = "MovementSystem.stopWalking" -> MovementSystem_stopWalking(h, entityId)
      [] op = "MovementSystem.startDragging" -> MovementSystem_startDragging(h, entityId)
      [] op = "MovementSystem.stopDragging" -> MovementSystem_stopDragging(h, entityId)
      [] op = "walking.startWalking" ->
            WalkingSystem_startWalking(h, entityId, OperationTarget)
      [] op = "walking.stopWalking" -> WalkingSystem_stopWalking(h, entityId)
      [] op = "dragging.startDragging" -> DraggingSystem_startDragging(h, entityId)
      [] op = "dragging.stopDragging" -> DraggingSystem_stopDragging(h, entityId)

\* the operations called in a run
MaxOperationCalls == 3
\* the passes of the update loop in a run
MaxOperationTicks == 2

\* world.getEntity(id), world.removeEntity(id), world.addComponent(id, ...), ...
WorldCall ==
    \E op \in WorldOperations, entityId \in OperationIds :
        /\ calls < MaxOperationCalls
        /\ HostBecomes(callOperation(Host, op, entityId), Op(op, entityId, "none"), 1)

\* StatsSystem.applyAction(id, 'feed'), MovementSystem.startWalking(id, x, y), ...
SystemCall ==
    \E op \in SystemOperations, entityId \in OperationIds :
        /\ calls < MaxOperationCalls
        /\ HostBecomes(callOperation(Host, op, entityId), Op(op, entityId, "none"), 1)

InitOperations == InitHostWith(DefaultCat, DefaultPlugins)

NextOperations ==
    \/ WorldCall
    \/ SystemCall
    \/ Tick(UpdateDelay, MaxOperationTicks)

SpecOperations == InitOperations /\ [][NextOperations]_vars

(***************************************************************************)
(* The host with interactions, walks and drags interleaved: the species    *)
(* config has reached the interactions system, time advances in passes of  *)
(* the update loop, and a status restore timer fires when its time has     *)
(* come, before any later pass.                                            *)
(***************************************************************************)
\* startDragging(), delivered by the bridge
DragStarted(maxCalls) ==
    /\ calls < maxCalls
    /\ HostBecomes(dragStarted(Host, MainPet), Op("dragStarted", MainPet, "none"), 1)

\* stopDragging(), delivered by the bridge
DragEnded(maxCalls) ==
    /\ calls < maxCalls
    /\ HostBecomes(dragEnded(Host, MainPet), Op("dragEnded", MainPet, "none"), 1)

\* a pass of the update loop that does not run ahead of a pending timer
TimedTick(delay, maxTicks) ==
    /\ timers # << >> => now + delay <= Head(timers).at
    /\ Tick(delay, maxTicks)

\* the requests delivered in a run
MaxInteractCalls == 3
\* the passes of the update loop in a run
MaxInteractTicks == 4

\* a pass comes after 100 ms, or late, after a second
InteractDelays == {UpdateDelay, RestoreDelay \div 2}

InitInteract == InitHostWith(DefaultCat, DefaultPlugins)

NextInteract ==
    \/ ConfigLoaded
    \/ InteractionRequested({"pet", "feed"}, MaxInteractCalls)
    \/ DragStarted(MaxInteractCalls)
    \/ DragEnded(MaxInteractCalls)
    \/ WalkRequested({OperationTarget}, MaxInteractCalls)
    \/ StopWalkRequested(MaxInteractCalls)
    \/ \E delay \in InteractDelays : TimedTick(delay, MaxInteractTicks)
    \/ StatusRestoreTimer

SpecInteract == InitInteract /\ [][NextInteract]_vars

(***************************************************************************)
(* The host walking a tired pet: a species that starts with just enough    *)
(* energy to begin a walk, loses most of it when it plays and has no       *)
(* degradation rates, so that only the walking plugin's energy cost lowers *)
(* its energy while the update loop ticks 100 ms or 5 s apart.             *)
(***************************************************************************)
TiredCat ==
    [DefaultCat EXCEPT !.name = "Tired",
                       !.initialStats = [hunger |-> 50, happiness |-> 50, energy |-> 12],
                       !.statModifiers = [play |-> [energy |-> -10]],
                       !.degradationRates = None]

\* the requests delivered in a run
MaxEnergyCalls == 3
\* the passes of the update loop in a run
MaxEnergyTicks == 5

EnergyDelays == {UpdateDelay, energyCostInterval}

InitEnergy == InitHostWith(TiredCat, DefaultPlugins)

NextEnergy ==
    \/ ApplyAction({"play"}, MaxEnergyCalls)
    \/ WalkRequested(WalkTargets, MaxEnergyCalls)
    \/ StopWalkRequested(MaxEnergyCalls)
    \/ \E delay \in EnergyDelays : Tick(delay, MaxEnergyTicks)

SpecEnergy == InitEnergy /\ [][NextEnergy]_vars

(***************************************************************************)
(* The host with incomplete configuration: species configs that lack the   *)
(* statModifiers, the moodThresholds or the graphicsMap entry, and an      *)
(* application config without currentPetType, which files the species      *)
(* config under the key undefined while the pet's identity.type falls back *)
(* to 'defaultCat'.  Actions are applied while the pet walks or stands;    *)
(* the update loop is left out.                                            *)
(***************************************************************************)
\* config without its entry named field
Lacking(config, field) == [f \in DOMAIN config \ {field} |-> config[f]]

IncompleteConfigs ==
    {DefaultCat, LazyCat, Lacking(DefaultCat, "statModifiers"),
     Lacking(DefaultCat, "moodThresholds"), Lacking(GrumpyCat, "moodThresholds")}

\* the requests delivered in a run
MaxConfigCalls == 3

InitConfig ==
    \E config \in IncompleteConfigs, typed \in BOOLEAN :
        LET h == initializeMainProcess(config, DefaultPlugins, StartTime)
        IN /\ entities = h.entities
           /\ componentIndex = h.componentIndex
           /\ nextEntityId = h.nextEntityId
           /\ emitted = h.emitted
           /\ ret = Undefined
           /\ removed = {}
           /\ statsPetConfigs = IF typed THEN h.statsPetConfigs
                                ELSE [t \in {Undefined} |-> config]
           /\ interactionsPetConfigs = h.interactionsPetConfigs
           /\ systems = h.systems
           /\ now = h.now
           /\ lastDegradationTime = h.lastDegradationTime
           /\ lastEnergyCostTime = h.lastEnergyCostTime
           /\ entitiesWalking = h.entitiesWalking
           /\ timers = h.timers
           /\ lastOp = Op("initializeMainProcess", MainPet, "none")
           /\ petConfig = config
           /\ walkTarget = None
           /\ targetReached = 0
           /\ calls = 0
           /\ ticks = 0
           /\ loadedPlugins = << >>
           /\ eventListeners = EmptyMap
           /\ invoked = << >>
           /\ disposers = << >>
           /\ statusHistory = [writes |-> 0, stamps |-> << >>]
           /\ display = None
           /\ channel = << >>

NextConfig ==
    \/ ApplyAction(HostActionTypes, MaxConfigCalls)
    \/ WalkRequested({OperationTarget}, MaxConfigCalls)
    \/ StopWalkRequested(MaxConfigCalls)

SpecConfig == InitConfig /\ [][NextConfig]_vars

(***************************************************************************)
(* The host given coordinates of any kind: position updates and walk       *)
(* requests whose x or y may be NaN, between update passes 100 ms apart.   *)
(***************************************************************************)
Coordinates == {0, Px(9), NaN}

Points == {PositionComponent_create(x, y) : x \in Coordinates, y \in Coordinates}

\* the requests delivered in a run
MaxCoordinateCalls == 3
\* the passes of the update loop in a run
MaxCoordinateTicks == 3

\* updatePosition(x, y), delivered by the bridge; a point with numbers for
\* coordinates is one from which the walks in progress have whole steps
PositionUpdateRequested ==
    \E point \in Points :
        /\ calls < MaxCoordinateCalls
        /\ Numeric(point)
               => \A target \in StoredTargets :
                      Numeric(target)
                          => point = target \/ ExactWalk(point, target, walkingSpeed)
        /\ HostBecomes(positionUpdateRequested(Host, MainPet, point.x, point.y),
                       [op |-> "positionUpdateRequested", id |-> MainPet, name |-> "none",
                        target |-> point], 1)

\* startWalking(targetX, targetY), delivered by the bridge while no walk is
\* in progress; between two points with numbers for coordinates the walk
\* is one whose steps are whole
CoordinateWalkRequested ==
    \E target \in Points :
        /\ calls < MaxCoordinateCalls
        /\ WalkIdle
        /\ (Numeric(target) /\ Numeric(Position))
               => ExactWalk(Position, target, walkingSpeed)
        /\ HostBecomes(walkRequested(Host, MainPet, target),
                       [op |-> "walkRequested", id |-> MainPet, name |-> "none",
                        target |-> target], 1)

InitCoordinates == InitHostWith(DefaultCat, DefaultPlugins)

NextCoordinates ==
    \/ PositionUpdateRequested
    \/ CoordinateWalkRequested
    \/ StopWalkRequested(MaxCoordinateCalls)
    \/ Tick(UpdateDelay, MaxCoordinateTicks)

SpecCoordinates == InitCoordinates /\ [][NextCoordinates]_vars

(***************************************************************************)
(* The plugin loader of the display process: loadPlugin, loadPlugins,      *)
(* unloadPlugin and getLoadedPlugins over the loader's loadedPlugins map.  *)
(* What importing and initialising a plugin does is a property of the      *)
(* plugin.                                                                 *)
(***************************************************************************)
\* the plugins: a and c load, b throws during initialize, d has no module
\* to import, e exports no initialize function
PluginIds == {"a", "b", "c", "d", "e"}

PluginKind(pluginId) ==
    CASE pluginId = "b" -> "throws"
      [] pluginId = "d" -> "noModule"
      [] pluginId = "e" -> "noInitialize"
      [] OTHER -> "ok"

\* loadedPlugins.has(pluginId)
IsLoaded(loaded, pluginId) == \E i \in 1..Len(loaded) : loaded[i] = pluginId

\* loadPlugin: the loaded map after the call and the value returned
loadPlugin(loaded, pluginId) ==
    IF IsLoaded(loaded, pluginId) THEN [loadedPlugins |-> loaded, ret |-> TRUE]
    ELSE CASE PluginKind(pluginId) = "noModule" -> [loadedPlugins |-> loaded, ret |-> FALSE]
           [] PluginKind(pluginId) = "noInitialize" -> [loadedPlugins |-> loaded, ret |-> FALSE]
           [] PluginKind(pluginId) = "throws" -> [loadedPlugins |-> loaded, ret |-> FALSE]
           [] OTHER -> [loadedPlugins |-> Append(loaded, pluginId), ret |-> TRUE]

\* a plausible slip: the loop ends at the first plugin that fails
RECURSIVE loadPlugins_stopsAtFailure(_, _, _)
loadPlugins_stopsAtFailure(loaded, pluginIds, loadedIds) ==
    IF pluginIds = << >> THEN [loadedPlugins |-> loaded, ret |-> loadedIds]
    ELSE LET res == loadPlugin(loaded, Head(pluginIds))
         IN IF res.ret
            THEN loadPlugins_stopsAtFailure(res.loadedPlugins, Tail(pluginIds),
                                            Append(loadedIds, Head(pluginIds)))
            ELSE [loadedPlugins |-> res.loadedPlugins, ret |-> loadedIds]

\* loadPlugins: the loop over pluginIds, loadedIds being the ids pushed so far
RECURSIVE loadPlugins(_, _, _)
loadPlugins(loaded, pluginIds, loadedIds) ==
    IF pluginIds = << >> THEN [loadedPlugins |-> loaded, ret |-> loadedIds]
    ELSE LET res == loadPlugin(loaded, Head(pluginIds))
         IN loadPlugins(res.loadedPlugins, Tail(pluginIds),
                        IF res.ret THEN Append(loadedIds, Head(pluginIds)) ELSE loadedIds)

\* what the cleanup of a plugin module does when unloadPlugin comes to it:
\* the module exports none, or it returns, or it throws
Cleanups == {"none", "returns", "throws"}

\* unloadPlugin: what cleanup throws is caught, and the function returns
\* false before the plugin is deleted from the map
unloadPlugin(loaded, pluginId, cleanup) ==
    IF ~IsLoaded(loaded, pluginId) THEN [loadedPlugins |-> loaded, ret |-> FALSE]
    ELSE IF cleanup = "throws" THEN [loadedPlugins |-> loaded, ret |-> FALSE]
    ELSE [loadedPlugins |-> SelectSeq(loaded, LAMBDA id : id # pluginId), ret |-> TRUE]

\* getLoadedPlugins()
getLoadedPlugins == {loadedPlugins[i] : i \in 1..Len(loadedPlugins)}

\* the longest list of ids handed to loadPlugins
MaxPluginList == 3

PluginLists == UNION {[1..n -> PluginIds] : n \in 0..MaxPluginList}

\* what a call of the loader leaves alone
LoaderFrame ==
    /\ UNCHANGED <<entities, componentIndex, nextEntityId, emitted, removed>>
    /\ UNCHANGED <<petConfig, statsPetConfigs, interactionsPetConfigs, systems, now,
                   lastDegradationTime, lastEnergyCostTime, entitiesWalking, timers,
                   walkTarget, targetReached, calls, ticks, eventListeners, invoked,
                   disposers, statusHistory, display, channel>>

LoadPlugins ==
    \E pluginIds \in PluginLists :
        /\ loadedPlugins' = loadPlugins(loadedPlugins, pluginIds, << >>).loadedPlugins
        /\ ret' = loadPlugins(loadedPlugins, pluginIds, << >>).ret
        /\ lastOp' = [op |-> "loadPlugins", id |-> NoId, name |-> "none",
                      pluginIds |-> pluginIds]
        /\ LoaderFrame

LoadPlugin ==
    \E pluginId \in PluginIds :
        /\ loadedPlugins' = loadPlugin(loadedPlugins, pluginId).loadedPlugins
        /\ ret' = Bool(loadPlugin(loadedPlugins, pluginId).ret)
        /\ lastOp' = Op("loadPlugin", pluginId, "none")
        /\ LoaderFrame

UnloadPlugin ==
    \E pluginId \in PluginIds, cleanup \in Cleanups :
        /\ loadedPlugins' = unloadPlugin(loadedPlugins, pluginId, cleanup).loadedPlugins
        /\ ret' = Bool(unloadPlugin(loadedPlugins, pluginId, cleanup).ret)
        /\ lastOp' = [op |-> "unloadPlugin", id |-> pluginId, name |-> "none",
                      cleanup |-> cleanup]
        /\ LoaderFrame

NextPlugins ==
    \/ LoadPlugins
    \/ LoadPlugin
    \/ UnloadPlugin

SpecPlugins == InitWorld /\ [][NextPlugins]_vars

(***************************************************************************)
(* The event bus of the World: on, the function on returns, and emitEvent  *)
(* delivering to the registered callbacks.  A callback either returns or   *)
(* throws when it is called.                                               *)
(***************************************************************************)
EventNames == {"ev1", "ev2"}
Callbacks == {"f", "g", "k"}

\* Set.has
Has(set, x) == \E i \in 1..Len(set) : set[i] = x

\* Set.add: a Set keeps its elements in insertion order, each once
SetAdd(set, x) == IF Has(set, x) THEN set ELSE Append(set, x)

\* Set.delete
SetDelete(set, x) == SelectSeq(set, LAMBDA y : y # x)

\* World.on: the listeners after the call
on(listeners, eventName, callback) ==
    LET ls == IF eventName \in DOMAIN listeners THEN listeners
              ELSE Put(listeners, eventName, << >>)
    IN [ls EXCEPT ![eventName] = SetAdd(@, callback)]

\* a plausible slip: the function on returns clears the event's listeners
off_removesAll(listeners, eventName, callback) ==
    IF eventName \in DOMAIN listeners
    THEN [listeners EXCEPT ![eventName] = << >>]
    ELSE listeners

\* the function World.on returns, called: the listeners after the call
off(listeners, eventName, callback) ==
    IF eventName \in DOMAIN listeners
    THEN [listeners EXCEPT ![eventName] = SetDelete(@, callback)]
    ELSE listeners

\* a plausible slip: no try around the callback, the first exception ends
\* the loop and reaches the caller
RECURSIVE callListeners_noTry(_, _, _, _)
callListeners_noTry(callbacks, eventName, throwing, done) ==
    IF callbacks = << >> THEN [invoked |-> done, ret |-> Undefined]
    ELSE LET called == Append(done, <<eventName, Head(callbacks)>>)
         IN IF Head(callbacks) \in throwing
            THEN [invoked |-> called, ret |-> "throws"]
            ELSE callListeners_noTry(Tail(callbacks), eventName, throwing, called)

\* the loop of World.emitEvent over the callbacks of the event: each is
\* called, what it throws is caught and logged; throwing is the set of the
\* callbacks that throw, done the calls made so far
RECURSIVE callListeners(_, _, _, _)
callListeners(callbacks, eventName, throwing, done) ==
    IF callbacks = << >> THEN [invoked |-> done, ret |-> Undefined]
    ELSE callListeners(Tail(callbacks), eventName, throwing,
                       Append(done, <<eventName, Head(callbacks)>>))

\* World.emitEvent(eventName, data) with callbacks that return or throw
emitToListeners(listeners, eventName, throwing) ==
    IF eventName \in DOMAIN listeners
    THEN callListeners(listeners[eventName], eventName, throwing, << >>)
    ELSE [invoked |-> << >>, ret |-> Undefined]

\* the calls of on() in a run
MaxOnCalls == 3

\* what a call of the bus leaves alone
BusFrame ==
    /\ UNCHANGED <<entities, componentIndex, nextEntityId, emitted, removed>>
    /\ UNCHANGED <<petConfig, statsPetConfigs, interactionsPetConfigs, systems, now,
                   lastDegradationTime, lastEnergyCostTime, entitiesWalking, timers,
                   walkTarget, targetReached, calls, ticks, loadedPlugins, statusHistory,
                   display, channel>>

\* dispose = world.on(eventName, callback)
On ==
    \E eventName \in EventNames, callback \in Callbacks :
        /\ Len(disposers) < MaxOnCalls
        /\ eventListeners' = on(eventListeners, eventName, callback)
        /\ disposers' = Append([i \in 1..Len(disposers) |->
                                    IF /\ disposers[i].eventName = eventName
                                       /\ disposers[i].callback = callback
                                       /\ disposers[i].timesCalled > 0
                                    THEN [disposers[i] EXCEPT !.reRegistered = TRUE]
                                    ELSE disposers[i]],
                                [eventName |-> eventName, callback |-> callback,
                                 timesCalled |-> 0, reRegistered |-> FALSE])
        /\ invoked' = << >>
        /\ ret' = Undefined
        /\ lastOp' = Op("on", callback, eventName)
        /\ BusFrame

\* dispose(): the i-th function on() returned is called
Off ==
    \E i \in 1..Len(disposers) :
        /\ eventListeners' = off(eventListeners, disposers[i].eventName,
                                 disposers[i].callback)
        /\ disposers' = [disposers EXCEPT ![i].timesCalled = Min(2, @ + 1),
                                          ![i].reRegistered = FALSE]
        /\ invoked' = << >>
        /\ ret' = Undefined
        /\ lastOp' = [op |-> "off", id |-> disposers[i].callback,
                      name |-> disposers[i].eventName, disposer |-> i]
        /\ BusFrame

\* world.emitEvent(eventName, data) while the callbacks of throwing throw
EmitEvent ==
    \E eventName \in EventNames, throwing \in SUBSET Callbacks :
        /\ invoked' = emitToListeners(eventListeners, eventName, throwing).invoked
        /\ ret' = emitToListeners(eventListeners, eventName, throwing).ret
        /\ lastOp' = [op |-> "emitEvent", id |-> NoId, name |-> eventName,
                      throwing |-> throwing]
        /\ UNCHANGED <<eventListeners, disposers>>
        /\ BusFrame

NextBus ==
    \/ On
    \/ Off
    \/ EmitEvent

SpecBus == InitWorld /\ [][NextBus]_vars

(***************************************************************************)
(* Properties of the World.                                                *)
(***************************************************************************)
IndexOf(c) == IF c \in DOMAIN componentIndex THEN componentIndex[c] ELSE {}

IndexedIds == UNION {componentIndex[c] : c \in DOMAIN componentIndex}

\* the lists of one or two component names getEntitiesWith is asked for
NameLists ==
    {<<c>> : c \in ComponentNames} \cup {<<c, d>> : c \in ComponentNames, d \in ComponentNames}

\* C1: after any sequence of World operations, an id is in the index set of
\* a component name exactly when the entity is in the entity map and has
\* that component; no id is indexed without being in the map.
C1_IndexMatchesEntities ==
    \A e \in (DOMAIN entities) \cup IndexedIds, c \in ComponentNames \cup DOMAIN componentIndex :
        (e \in IndexOf(c)) <=> (e \in DOMAIN entities /\ hasComponent(entities[e], c))

\* C2: once removeEntity(id) has returned true, and until the id is created
\* or added again, getEntitiesWith never returns the entity, whatever
\* component names are asked for.
C2_RemovedNeverReturned ==
    \A id \in removed, names \in NameLists : id \notin getEntitiesWith(World, names)

\* C2 witness: a removed id is still in an index set (a listener added a
\* component while the removal was announced), and getEntitiesWith is
\* asked for that component.
C2_Witness ==
    \E id \in removed, c \in ComponentNames :
        /\ id \in IndexOf(c)
        /\ lastOp.op = "removeEntity"
        /\ ret = True
        /\ id \notin getEntitiesWith(World, <<c>>)

\* C10: updateComponent on an existing entity that does not have the
\* component returns null, creates nothing, leaves the entity's components
\* and the component index unchanged and emits no componentUpdated event.
C10_UpdateMissingFails ==
    [][(/\ lastOp'.op = "updateComponent"
        /\ lastOp'.id \in DOMAIN entities
        /\ ~hasComponent(entities[lastOp'.id], lastOp'.name))
       => (/\ ret' = Null
           /\ entities' = entities
           /\ componentIndex' = componentIndex
           /\ \A i \in 1..Len(emitted') : emitted'[i][1] # "componentUpdated")]_vars

\* C10 witness: updateComponent was called for a component the entity does
\* not have, on an entity that exists and has another component.
C10_Witness ==
    /\ lastOp.op = "updateComponent"
    /\ ret = Null
    /\ lastOp.id \in DOMAIN entities
    /\ ~hasComponent(entities[lastOp.id], lastOp.name)
    /\ entities[lastOp.id] # EmptyMap

\* the lists of one to three names getEntitiesWith is asked for; no entity
\* of the world ever has an 'appearance'
QueryLists ==
    LET names == ComponentNames \cup {"appearance"}
    IN {<<c>> : c \in names} \cup {<<c, d>> : c \in names, d \in names}
         \cup {<<c, d, e>> : c \in names, d \in names, e \in names}

\* the entities of the map that have every component of names
EntitiesHavingAll(names) ==
    {id \in DOMAIN entities :
        \A i \in 1..Len(names) : hasComponent(entities[id], names[i])}

\* C11: in every reachable world, getEntitiesWith with one or more names
\* returns exactly the entities of the map that have every named component,
\* the same set for the same names in any order, and with no names it
\* returns nothing.
C11_GetEntitiesWithExact ==
    /\ getEntitiesWith(World, << >>) = {}
    /\ \A names \in QueryLists :
          /\ getEntitiesWith(World, names) = EntitiesHavingAll(names)
          /\ \A other \in QueryLists :
                {names[i] : i \in 1..Len(names)} = {other[i] : i \in 1..Len(other)}
                    => getEntitiesWith(World, other) = getEntitiesWith(World, names)

\* C11 witness: e1 has both components, e2 only one of them but is still
\* in the index set of the other (a stale entry), and the query for both
\* names, in either order, returns e1 alone.
C11_Witness ==
    /\ DOMAIN entities = {"e1", "e2"}
    /\ DOMAIN entities["e1"] = {"position", "stats"}
    /\ DOMAIN entities["e2"] = {"stats"}
    /\ "e2" \in IndexOf("position")
    /\ getEntitiesWith(World, <<"position", "stats">>) = {"e1"}
    /\ getEntitiesWith(World, <<"stats", "position">>) = {"e1"}

\* new World(): a fresh world
FreshWorld ==
    [entities |-> EmptyMap, componentIndex |-> EmptyMap, nextEntityId |-> 1,
     emitted |-> << >>, ret |-> Undefined, removed |-> {}]

\* a world that already holds other entities: one under an id of its own
\* and one under the id e1, with components of their own
OtherWorld ==
    [entities |-> [e9 |-> [stats |-> "d2"], e1 |-> [position |-> "d2"]],
     componentIndex |-> [stats |-> {"e9"}, position |-> {"e1"}],
     nextEntityId |-> 5, emitted |-> << >>, ret |-> Undefined, removed |-> {}]

\* the worlds a snapshot is restored into: a fresh one, one with other
\* entities, and the world the snapshot was taken of
RestoreTargets == {FreshWorld, OtherWorld, World}

\* the index of w lists, under each name, exactly the entities having it
IndexConsistent(w) ==
    \A c \in ComponentNames \cup DOMAIN w.componentIndex :
        (IF c \in DOMAIN w.componentIndex THEN w.componentIndex[c] ELSE {})
            = {id \in DOMAIN w.entities : hasComponent(w.entities[id], c)}

FailureSentinels == {Undefined, Null, False}

\* C16: an entity or component operation of the World, StatsSystem's
\* applyAction and the start and stop operations of the movement, walking
\* and dragging systems, called with an id that is not in the world, return
\* undefined, null or false, leave the entities and the component index as
\* they were and emit no event.
C16_UnknownIdFails ==
    [][(/\ lastOp'.op \in WorldOperations \cup SystemOperations
        /\ lastOp'.id \notin DOMAIN entities)
           => /\ ret' \in FailureSentinels
              /\ entities' = entities
              /\ componentIndex' = componentIndex
              /\ emitted' = << >>]_vars

(***************************************************************************)
(* Properties of interactions, drags and walks.                            *)
(***************************************************************************)
\* C17: a status restore timer writes the status only if nothing has
\* written the status since the timer's own interaction set it to
\* 'interacting'; the status it then writes is the one the pet had before
\* that interaction.
C17_RestoreNeverClobbers ==
    [][(lastOp'.op = "restoreStatus" /\ emitted' # << >>)
           => /\ Head(statusHistory.stamps) = statusHistory.writes
              /\ Appearance'.status = Head(timers).originalStatus]_vars

\* C18: when a drag starts, a walk in progress is cancelled: after the
\* dragStarted event no system walks the pet (it is not in
\* MovementSystem's entitiesWalking and its walkState.isWalking is false)
\* and the status is 'dragging'; the pass of the update loop that follows
\* does not move the pet.
C18_DragCancelsWalk ==
    [][/\ lastOp'.op = "dragStarted"
            => /\ WalkIdle'
               /\ Appearance'.status = "dragging"
       /\ (lastOp.op = "dragStarted" /\ lastOp'.op = "update")
            => Position' = Position]_vars

\* C19: a walk request for a pet whose energy is below the threshold of 10
\* starts no walk: after the walkRequested event the status is not
\* 'walking' and no system walks the pet (it is not in MovementSystem's
\* entitiesWalking and its walkState.isWalking is false), and the pass of
\* the update loop that follows leaves the position alone.
C19_LowEnergyStartsNoWalk ==
    [][/\ (lastOp'.op = "walkRequested" /\ Stats.energy < MinWalkEnergy)
            => /\ Appearance'.status # "walking"
               /\ WalkIdle'
       /\ (/\ lastOp.op = "walkRequested"
           /\ Stats.energy < MinWalkEnergy
           /\ lastOp'.op = "update")
            => Position' = Position]_vars

\* a walk of the pet is in progress in some system
WalkInProgress == ~WalkIdle

\* C20: a walk in progress costs 1 energy (not below 0) per elapsed 5000 ms
\* of walking, and stops by itself when the energy reaches 0.  A pass of the
\* update loop lowers the energy of a walking pet by at most the cost, and
\* not at all when it comes less than 5000 ms after the walk request; the
\* pass in which the energy of a walking pet reaches 0 leaves the status
\* 'idle' and no system walking the pet, and the pass after one that left
\* the pet idle without energy leaves the position alone.
C20_WalkCostsEnergyAndStops ==
    [][lastOp'.op = "update" =>
         /\ WalkInProgress
              => Stats'.energy \in {Stats.energy, Max(0, Stats.energy - energyCost)}
         /\ (lastOp.op = "walkRequested" /\ now' - now < energyCostInterval)
              => Stats'.energy = Stats.energy
         /\ (WalkInProgress /\ Stats.energy > 0 /\ Stats'.energy = 0)
              => /\ Appearance'.status = "idle"
                 /\ WalkIdle'
         /\ (lastOp.op = "update" /\ Stats.energy = 0 /\ Appearance.status = "idle")
              => Position' = Position]_vars

(***************************************************************************)
(* Properties of the event bus.                                            *)
(***************************************************************************)
\* the callbacks registered for eventName, in the order the Set holds them
Listeners(listeners, eventName) ==
    IF eventName \in DOMAIN listeners THEN listeners[eventName] ELSE << >>

\* C14: emitEvent(name) invokes every callback registered for name exactly
\* once, in registration order (on puts a new callback after those already
\* registered), whichever of them throw; it invokes no other callback,
\* returns normally and leaves the registrations as they were.
C14_EmitReachesEveryListener ==
    [][/\ lastOp'.op = "emitEvent"
            => LET ls == Listeners(eventListeners, lastOp'.name)
               IN /\ Len(invoked') = Len(ls)
                  /\ \A i \in 1..Len(ls) : invoked'[i] = <<lastOp'.name, ls[i]>>
                  /\ \A i, j \in 1..Len(invoked') : invoked'[i] = invoked'[j] => i = j
                  /\ ret' = Undefined
                  /\ eventListeners' = eventListeners
       /\ lastOp'.op = "on"
            => LET before == Listeners(eventListeners, lastOp'.name)
                   after == Listeners(eventListeners', lastOp'.name)
               IN IF Has(before, lastOp'.id) THEN after = before
                  ELSE after = before \o <<lastOp'.id>>]_vars

\* C14 witness: three callbacks are registered for ev1 in the order g, f,
\* k; g and f throw, and all three have been invoked in that order.
C14_Witness ==
    /\ lastOp.op = "emitEvent"
    /\ lastOp.name = "ev1"
    /\ lastOp.throwing = {"f", "g"}
    /\ "ev1" \in DOMAIN eventListeners
    /\ eventListeners["ev1"] = <<"g", "f", "k">>
    /\ invoked = <<<<"ev1", "g">>, <<"ev1", "f">>, <<"ev1", "k">>>>
    /\ ret = Undefined

\* the call of a disposer removes its callback from its event and nothing
\* else: every other registration stays, in the same order
RemovesExactly(d) ==
    /\ ~Has(Listeners(eventListeners', d.eventName), d.callback)
    /\ \A e \in EventNames :
          Listeners(eventListeners', e) =
              SelectSeq(Listeners(eventListeners, e),
                        LAMBDA c : ~(e = d.eventName /\ c = d.callback))

\* C15 as stated: calling the function on(eventName, callback) returned
\* removes that callback from eventName and leaves every other listener of
\* every event registered; a later emitEvent invokes only registered
\* callbacks; calling the function a second time changes nothing.
C15_DisposerRemovesOnlyItsListener ==
    [][/\ lastOp'.op = "off"
            => LET d == disposers[lastOp'.disposer]
               IN /\ RemovesExactly(d)
                  /\ d.timesCalled > 0 => eventListeners' = eventListeners
       /\ lastOp'.op = "emitEvent"
            => \A i \in 1..Len(invoked') :
                  Has(Listeners(eventListeners, lastOp'.name), invoked'[i][2])]_vars

\* C15 amended: as above, but a second call changes nothing only if the
\* callback has not been registered for the event again since the
\* function's last call.
C15_DisposerUnlessRegisteredAgain ==
    [][/\ lastOp'.op = "off"
            => LET d == disposers[lastOp'.disposer]
               IN /\ RemovesExactly(d)
                  /\ (d.timesCalled > 0 /\ ~d.reRegistered)
                        => eventListeners' = eventListeners
       /\ lastOp'.op = "emitEvent"
            => \A i \in 1..Len(invoked') :
                  Has(Listeners(eventListeners, lastOp'.name), invoked'[i][2])]_vars

\* C15 witness: f was registered for ev1 and ev2 and g for ev1; the
\* function returned for (ev1, f) has been called twice: g is still
\* registered for ev1 and f for ev2.
C15_Witness ==
    /\ lastOp.op = "off"
    /\ disposers[lastOp.disposer] =
           [eventName |-> "ev1", callback |-> "f", timesCalled |-> 2,
            reRegistered |-> FALSE]
    /\ DOMAIN eventListeners = {"ev1", "ev2"}
    /\ eventListeners["ev1"] = <<"g">>
    /\ eventListeners["ev2"] = <<"f">>

(***************************************************************************)
(* Properties of the plugin loader.                                        *)
(***************************************************************************)
\* the plugin throws during initialize or cannot be loaded
Failing(pluginId) == PluginKind(pluginId) # "ok"

\* C13: loadPlugins(ids) loads every plugin of the list that does not fail,
\* whatever fails before or after it: it returns exactly the non-failing
\* ids in input order, getLoadedPlugins() has each of them and none of the
\* failing ones; [a,b,c] with b throwing leaves a and c loaded and b not.
C13_LoadPluginsSkipsFailures ==
    [][lastOp'.op = "loadPlugins" =>
        LET ids == lastOp'.pluginIds
        IN /\ ret' = SelectSeq(ids, LAMBDA id : ~Failing(id))
           /\ \A i \in 1..Len(ids) : ~Failing(ids[i]) <=> IsLoaded(loadedPlugins', ids[i])
           /\ ids = <<"a", "b", "c">>
                 => /\ IsLoaded(loadedPlugins', "a")
                    /\ IsLoaded(loadedPlugins', "c")
                    /\ ~IsLoaded(loadedPlugins', "b")]_vars

\* C13 witness: [a,b,c] was loaded into an empty loader; b threw, a and c
\* are returned and loaded.
C13_Witness ==
    /\ lastOp.op = "loadPlugins"
    /\ lastOp.pluginIds = <<"a", "b", "c">>
    /\ ret = <<"a", "c">>
    /\ loadedPlugins = <<"a", "c">>

(***************************************************************************)
(* Properties of the component functions.                                  *)
(***************************************************************************)
\* c is a nearest integer to num / den (den > 0)
IsNearest(c, num, den) == 2 * c * den - 2 * num <= den /\ 2 * num - 2 * c * den <= den

\* C8: a degradation pass over h hours with hourly rate r changes a stat by
\* round(r x h): hunger becomes min(100, hunger + round(r h)), happiness and
\* energy become max(0, value - round(r h)); 2 hours at hunger rate 5 turn
\* hunger 50 into 60; a pass with h <= 0 or without rates changes nothing.
C8_DegradationRounds ==
    [][lastOp'.op = "applyDegradation" =>
        LET old == entities[MainPet]["stats"]
            new == entities'[MainPet]["stats"]
            rates == lastOp'.rates
            ms == lastOp'.ms
        IN /\ (rates = None \/ ms <= 0) => new = old
           /\ (rates # None /\ ms > 0) =>
                /\ new.lastInteraction = old.lastInteraction
                /\ \A s \in StatNames :
                     IF s \in DOMAIN rates[1]
                     THEN \E c \in -100..100 :
                            /\ IsNearest(c, rates[1][s] * ms, MsPerHour)
                            /\ new[s] = IF s = "hunger" THEN Min(100, old[s] + c)
                                        ELSE Max(0, old[s] - c)
                     ELSE new[s] = old[s]
           /\ (rates = Some([hunger |-> 5]) /\ ms = 2 * MsPerHour /\ old.hunger = 50)
                => new.hunger = 60]_vars

\* C8 witness: a pass of 2 hours at hunger rate 5 has turned hunger into 60.
C8_Witness ==
    /\ lastOp.op = "applyDegradation"
    /\ lastOp.rates = Some([hunger |-> 5])
    /\ lastOp.ms = 2 * MsPerHour
    /\ Stats.hunger = 60

\* the stats satisfy every declared min/max bound of a declared tier
SatisfiesTier(stats, thresholds, mood) ==
    /\ mood \in DOMAIN thresholds
    /\ \A s \in DOMAIN thresholds[mood] :
         /\ "min" \in DOMAIN thresholds[mood][s] => stats[s] >= thresholds[mood][s].min
         /\ "max" \in DOMAIN thresholds[mood][s] => stats[s] <= thresholds[mood][s].max

\* C9: updateMood sets mood to happy if the stats satisfy every declared
\* bound of the happy tier, else to neutral if they satisfy every bound of
\* the neutral tier, else to sad; it returns true exactly when the stored
\* mood changed and never modifies the thresholds; with the default happy
\* tier, stats {40,60,70} give happy and {80,20,10} give sad.
C9_UpdateMoodTiers ==
    [][lastOp'.op = "updateMood" =>
        LET stats == entities[MainPet]["stats"]
            old == entities[MainPet]["appearance"]
            new == entities'[MainPet]["appearance"]
            th == petConfig.moodThresholds
            expected == IF SatisfiesTier(stats, th, "happy") THEN "happy"
                        ELSE IF SatisfiesTier(stats, th, "neutral") THEN "neutral"
                        ELSE "sad"
        IN /\ new.mood = expected
           /\ (ret' = True) <=> (new.mood # old.mood)
           /\ ret' \in {True, False}
           /\ petConfig' = petConfig
           /\ new.graphic = old.graphic /\ new.status = old.status
           /\ entities'[MainPet]["stats"] = stats
           /\ (th.happy = DefaultThresholds.happy /\ stats.hunger = 40
               /\ stats.happiness = 60 /\ stats.energy = 70) => new.mood = "happy"
           /\ (th = DefaultThresholds /\ stats.hunger = 80
               /\ stats.happiness = 20 /\ stats.energy = 10) => new.mood = "sad"]_vars

\* C9 witness: updateMood has turned the mood of stats {80,20,10} to sad
\* under the default thresholds, and reported the change.
C9_Witness ==
    /\ lastOp.op = "updateMood"
    /\ ret = True
    /\ petConfig.moodThresholds = DefaultThresholds
    /\ Stats.hunger = 80 /\ Stats.happiness = 20 /\ Stats.energy = 10
    /\ Appearance.mood = "sad"

(***************************************************************************)
(* Properties of the host.                                                 *)
(***************************************************************************)
\* the species config the stats system holds for the pet
LoadedConfig == statsPetConfigs[entities[MainPet]["identity"].type]

\* the mood updateMood computes from stats and the species' thresholds
ComputedMood(stats, config) ==
    updateMood(AppearanceComponent_create(DefaultGlyph, "idle", "none"), stats,
               config.moodThresholds).component.mood

\* the graphic resolved for (status, mood): the species' graphics map looked
\* up, the built-in glyph when it has none
ResolvedGraphic(config, status, mood) ==
    IF config.graphicsMap = None THEN DefaultGlyph
    ELSE ResolveGraphic(config.graphicsMap[1], status, mood)

\* C3: hunger, happiness and energy of the pet each stay within [0,100] in
\* every reachable state of the host, for every species config.
C3_StatsInRange == \A s \in StatNames : Stats[s] >= 0 /\ Stats[s] <= 100

\* C4: after every step of the host that changes a stat of the pet, the
\* mood of its appearance is the mood computed from its stats and the
\* species' thresholds.
C4_MoodFollowsStats ==
    [][(\E s \in StatNames : Stats'[s] # Stats[s])
           => Appearance'.mood = ComputedMood(Stats', LoadedConfig')]_vars

\* C7: applyAction for an action type the species config has a modifier set
\* for returns true, sets each stat the set names to clamp(old + modifier,
\* 0, 100), leaves the other stats as they were and sets lastInteraction to
\* the current time; the graphic is the one resolved for (status, new mood)
\* if the mood changed and is unchanged if it did not.
C7_ApplyAction ==
    [][(lastOp'.op = "applyAction" /\ lastOp'.name \in DOMAIN LoadedConfig.statModifiers)
           => LET modifiers == LoadedConfig.statModifiers[lastOp'.name]
              IN /\ ret' = True
                 /\ \A s \in StatNames :
                       Stats'[s] = IF s \in DOMAIN modifiers
                                   THEN Max(0, Min(100, Stats[s] + modifiers[s]))
                                   ELSE Stats[s]
                 /\ Stats'.lastInteraction = now'
                 /\ Appearance'.mood # Appearance.mood
                       => Appearance'.graphic =
                              ResolvedGraphic(LoadedConfig, Appearance'.status,
                                              Appearance'.mood)
                 /\ Appearance'.mood = Appearance.mood
                       => Appearance'.graphic = Appearance.graphic]_vars

\* the spec's example: feed, {hunger: -20, energy: 10}, on 50/50/50 gives
\* hunger 30 and energy 60; the mood becomes happy and the graphic follows
C7_Witness ==
    /\ lastOp.op = "applyAction"
    /\ lastOp.name = "feed"
    /\ petConfig = DefaultCat
    /\ ret = True
    /\ Stats.hunger = 30
    /\ Stats.happiness = 50
    /\ Stats.energy = 60
    /\ Stats.lastInteraction > StartTime
    /\ Appearance.mood = "happy"
    /\ Appearance.graphic = "idle-happy"

\* C5: a requested walk that the update loop has brought to its end (no
\* system walks the pet any more, no stop was requested) has put the pet
\* exactly on the target and has emitted exactly one targetReached event,
\* counting the events of every registered system; the pet is never
\* outside the rectangle its targets span.
C5_WalkReachesTargetOnce ==
    /\ Position.x >= 0 /\ Position.x <= Px(9)
    /\ Position.y >= 0 /\ Position.y <= Px(12)
    /\ (walkTarget # None /\ WalkIdle)
           => /\ Position = walkTarget[1]
              /\ targetReached = 1

\* the time since the host started, in ms
Elapsed == now - StartTime

\* C6: with the default rates and the update loop ticking, the stats decay:
\* once 12 minutes have passed (5 per hour makes 1) hunger is above and
\* happiness below its initial value, and at any time each stat's
\* accumulated change is within 1 of rate x hours.
C6_StatsDecay ==
    petConfig = DefaultCat
        => LET rates == petConfig.degradationRates[1]
               initial == petConfig.initialStats
           IN /\ Elapsed >= MaxDecayTicks * UpdateDelay
                    => /\ Stats.hunger > initial.hunger
                       /\ Stats.happiness < initial.happiness
              /\ (Stats.hunger - initial.hunger) * MsPerHour
                    >= rates.hunger * Elapsed - MsPerHour
              /\ (initial.happiness - Stats.happiness) * MsPerHour
                    >= rates.happiness * Elapsed - MsPerHour
              /\ (initial.energy - Stats.energy) * MsPerHour
                    >= rates.energy * Elapsed - MsPerHour

\* what StatsSystem.applyAction(mainPet, actionType) would leave, called
\* where the interaction has put the 'interacting' overlay on the status
AsApplyAction(actionType) ==
    StatsSystem_applyAction(setStatus(Host, MainPet, "interacting"), MainPet, actionType)

\* C21: an interaction of a type the species config has a modifier set for,
\* handled by the interactions system holding that config, leaves the
\* stats, lastInteraction, mood and graphic that StatsSystem.applyAction
\* leaves for the same type, and returns what it returns.
C21_InteractionAsApplyAction ==
    [][(/\ lastOp'.op = "handleInteraction"
        /\ interactionsPetConfigs # EmptyMap
        /\ lastOp'.name \in DOMAIN LoadedConfig.statModifiers)
           => LET expected == AsApplyAction(lastOp'.name)
              IN /\ Stats' = expected.entities[MainPet]["stats"]
                 /\ Appearance'.mood = expected.entities[MainPet]["appearance"].mood
                 /\ Appearance'.graphic = expected.entities[MainPet]["appearance"].graphic
                 /\ ret' = expected.ret]_vars

\* the species config StatsSystem holds for the pet's type, if any
PetTypeConfig ==
    IF entities[MainPet]["identity"].type \in DOMAIN statsPetConfigs
    THEN Some(statsPetConfigs[entities[MainPet]["identity"].type])
    ELSE None

\* applyAction finds no modifier set for the action type
NoModifierSet(actionType) ==
    \/ PetTypeConfig = None
    \/ "statModifiers" \notin DOMAIN PetTypeConfig[1]
    \/ actionType \notin DOMAIN PetTypeConfig[1].statModifiers

\* C22: applyAction never throws; without a species config for the pet's
\* type, without statModifiers or without a modifier set for the action
\* type it returns false and leaves stats (lastInteraction included), mood,
\* status and graphic as they were.
C22_ApplyActionMissingConfig ==
    [][lastOp'.op = "applyAction"
          => /\ ret' # Thrown
             /\ NoModifierSet(lastOp'.name)
                   => /\ ret' = False
                      /\ Stats' = Stats
                      /\ Appearance' = Appearance]_vars

\* the interactions system finds no modifier set for the interaction type
NoInteractionModifiers(interactionType) ==
    \/ entities[MainPet]["identity"].type \notin DOMAIN interactionsPetConfigs
    \/ interactionType \notin
           DOMAIN interactionsPetConfigs[entities[MainPet]["identity"].type].statModifiers

\* C23: an interaction request of a type without a modifier set in the
\* species config, or for a species without a config, returns false and
\* leaves the pet as it was: its stats, its status, its components and its
\* interaction history; it emits neither appearanceUpdated nor
\* interactionApplied and schedules no status restore.
C23_InteractionMissingConfig ==
    [][(lastOp'.op = "handleInteraction" /\ NoInteractionModifiers(lastOp'.name))
          => /\ ret' = False
             /\ Stats' = Stats
             /\ Appearance'.status = Appearance.status
             /\ DOMAIN entities'[MainPet] = DOMAIN entities[MainPet]
             /\ hasComponent(entities[MainPet], InteractionState)
                   => entities'[MainPet][InteractionState] =
                          entities[MainPet][InteractionState]
             /\ CountEvents(emitted', "appearanceUpdated") = 0
             /\ CountEvents(emitted', "interactionApplied") = 0
             /\ timers' = timers]_vars

\* the pet's walking.walkState component, if it has one
WalkStateOf(entity) == IF hasComponent(entity, WalkState) THEN Some(entity[WalkState]) ELSE None

\* C24: a position update or walk request with a coordinate that is not a
\* number is aborted: after every step the pet's x and y are numbers and
\* no stored walk target has a coordinate that is not, and such a request
\* leaves position, status and walk state as they were.
C24_NonNumericAborted ==
    [][/\ Numeric(Position')
       /\ \A target \in StoredTargets' : Numeric(target)
       /\ (/\ lastOp'.op \in {"positionUpdateRequested", "walkRequested"}
           /\ ~Numeric(lastOp'.target))
             => /\ Position' = Position
                /\ Appearance'.status = Appearance.status
                /\ entitiesWalking' = entitiesWalking
                /\ WalkStateOf(entities'[MainPet]) = WalkStateOf(entities[MainPet])]_vars


(***************************************************************************)
(* The host with a display attached: the display creates its own pet with  *)
(* the components' defaults, the host sends the pet's state after every    *)
(* positionUpdated, appearanceUpdated and statsUpdated of the pet and after *)
(* every applied action, and the display applies the states in the order   *)
(* they were sent.                                                         *)
(***************************************************************************)
\* createRendererPetEntity: the display's pet, made of the defaults of
\* PositionComponent, StatsComponent and AppearanceComponent
RendererPet ==
    [x |-> 0, y |-> 0, hunger |-> 50, happiness |-> 50, energy |-> 50,
     lastInteraction |-> now, status |-> "idle", mood |-> "neutral",
     graphic |-> DefaultGlyph]

\* what neither the display nor the delivery of a state changes
DisplayFrame ==
    UNCHANGED <<entities, componentIndex, nextEntityId, emitted, removed, petConfig,
                statsPetConfigs, interactionsPetConfigs, systems, now,
                lastDegradationTime, lastEnergyCostTime, entitiesWalking, timers,
                walkTarget, targetReached, calls, ticks, loadedPlugins, eventListeners,
                invoked, disposers, statusHistory, ret>>

\* initializeRenderer, with setEventForwarder and setStateUpdateListener on
\* the host: from now on the host's states are sent
InitializeRenderer ==
    /\ display = None
    /\ display' = Some(RendererPet)
    /\ channel' = channel
    /\ lastOp' = Op("initializeRenderer", MainPet, "none")
    /\ DisplayFrame

\* the onPetStateUpdate handler of setupRendererEventHandlers: the oldest
\* state in flight is copied into the display's components
OnPetStateUpdate ==
    /\ display # None
    /\ channel # << >>
    /\ display' = Some(Head(channel))
    /\ channel' = Tail(channel)
    /\ lastOp' = Op("onPetStateUpdate", MainPet, "none")
    /\ DisplayFrame

\* the requests delivered in a run
MaxSyncCalls == 2
\* the passes of the update loop in a run
MaxSyncTicks == 2

\* a pass comes after 100 ms, or after an hour in which the stats degrade
SyncDelays == {UpdateDelay, MsPerHour}

InitSync == InitHostWith(DefaultCat, DefaultPlugins)

NextSync ==
    \/ InitializeRenderer
    \/ OnPetStateUpdate
    \/ ConfigLoaded
    \/ ApplyAction({"feed", "play"}, MaxSyncCalls)
    \/ InteractionRequested({"pet", "feed"}, MaxSyncCalls)
    \/ DragStarted(MaxSyncCalls)
    \/ DragEnded(MaxSyncCalls)
    \/ WalkRequested({OperationTarget}, MaxSyncCalls)
    \/ StopWalkRequested(MaxSyncCalls)
    \/ \E delay \in SyncDelays : Tick(delay, MaxSyncTicks)
    \/ StatusRestoreTimer

SpecSync == InitSync /\ [][NextSync]_vars

\* the part of a pet state that the display shows
Shown(state) ==
    [x |-> state.x, y |-> state.y, hunger |-> state.hunger,
     happiness |-> state.happiness, energy |-> state.energy, status |-> state.status,
     mood |-> state.mood, graphic |-> state.graphic]

\* the host's pet, as the display would show it
HostShown == Shown(getPetState([entities |-> entities]))

\* C25: while a display is attached, every step of the host that changes
\* the pet's hunger, happiness, energy, status, mood, graphic, x or y sends
\* a state, and the last state sent carries the host's new values, so that
\* the display equals the host once every state in flight is applied
C25_ChangesForwarded ==
    [][(display # None /\ HostShown' # HostShown)
          => /\ Len(channel') > Len(channel)
             /\ Shown(channel'[Len(channel')]) = HostShown']_vars


(***************************************************************************)
(* The plugin API on a world: plugins subscribe to the changes of their    *)
(* own component on the pet, unsubscribe again, and the components of the  *)
(* pet and of another entity are updated.                                  *)
(***************************************************************************)
ApiPluginIds == {"dragging", "walking"}
PluginComponents == {"dragging"}

\* `${pluginId}.${componentName}`
NamespacedName(pluginId, componentName) == pluginId \o "." \o componentName

\* the components entities carry in a world with plugins
ApiComponentNames ==
    {NamespacedName(pluginId, componentName) :
        pluginId \in ApiPluginIds, componentName \in PluginComponents}

ApiEntityIds == {MainPet, "e1"}

\* data[key] in JavaScript: undefined when the object has no such property
Property(data, key) == IF key \in DOMAIN data THEN data[key] ELSE Undefined

\* the data World.updateComponent hands to emitEvent('componentUpdated');
\* the entity object is stood for by its id
componentUpdatedData(entity, componentName, oldData, newData) ==
    [entity |-> entity, componentName |-> componentName, oldData |-> oldData,
     newData |-> newData]

\* the listener api.onPetComponentChange registers, called with the data
\* of an event: the calls of the plugin's callback it makes
petComponentListener(listener, data) ==
    IF /\ Property(data, "entityId") = "mainPet"
       /\ Property(data, "componentName")
            = NamespacedName(listener.pluginId, listener.componentName)
    THEN <<[callback |-> listener, newData |-> Property(data, "newData"),
            oldData |-> Property(data, "oldData")]>>
    ELSE << >>

\* the loop of World.emitEvent over the listeners of componentUpdated
RECURSIVE callComponentListeners(_, _)
callComponentListeners(listeners, data) ==
    IF listeners = << >> THEN << >>
    ELSE petComponentListener(Head(listeners), data)
            \o callComponentListeners(Tail(listeners), data)

\* the subscriptions made in a run
MaxSubscriptions == 2

\* what a call of the plugin API leaves alone
ApiFrame ==
    UNCHANGED <<petConfig, statsPetConfigs, interactionsPetConfigs, systems, now,
                lastDegradationTime, lastEnergyCostTime, entitiesWalking, timers,
                walkTarget, targetReached, calls, ticks, loadedPlugins, statusHistory,
                display, channel>>

\* unsubscribe = api.onPetComponentChange(componentName, callback): a new
\* listener function is registered for componentUpdated
OnPetComponentChange ==
    \E pluginId \in ApiPluginIds, componentName \in PluginComponents :
        LET listener == [pluginId |-> pluginId, componentName |-> componentName,
                         serial |-> Len(disposers) + 1]
        IN /\ Len(disposers) < MaxSubscriptions
           /\ eventListeners' = on(eventListeners, "componentUpdated", listener)
           /\ disposers' = Append(disposers,
                                  [eventName |-> "componentUpdated", callback |-> listener,
                                   timesCalled |-> 0, reRegistered |-> FALSE])
           /\ invoked' = << >>
           /\ ret' = Undefined
           /\ lastOp' = Op("onPetComponentChange", pluginId, componentName)
           /\ UNCHANGED <<entities, componentIndex, nextEntityId, emitted, removed>>
           /\ ApiFrame

\* unsubscribe(): the i-th function onPetComponentChange returned is called
Unsubscribe ==
    \E i \in 1..Len(disposers) :
        /\ eventListeners' = off(eventListeners, disposers[i].eventName,
                                 disposers[i].callback)
        /\ disposers' = [disposers EXCEPT ![i].timesCalled = Min(2, @ + 1)]
        /\ invoked' = << >>
        /\ ret' = Undefined
        /\ lastOp' = Op("unsubscribe", disposers[i].callback.pluginId,
                        disposers[i].callback.componentName)
        /\ UNCHANGED <<entities, componentIndex, nextEntityId, emitted, removed>>
        /\ ApiFrame

\* world.updateComponent(entityId, componentName, componentData) with the
\* listeners of the plugins registered
ApiUpdateComponent ==
    \E id \in ApiEntityIds \cup {"e2"}, name \in ApiComponentNames,
       data \in ComponentData :
        LET w == updateComponent(World, id, name, data, NoReaction)
        IN /\ entities' = w.entities
           /\ componentIndex' = w.componentIndex
           /\ nextEntityId' = w.nextEntityId
           /\ emitted' = w.emitted
           /\ removed' = w.removed
           /\ ret' = w.ret
           /\ invoked' =
                IF w.ret = Null \/ "componentUpdated" \notin DOMAIN eventListeners
                THEN << >>
                ELSE callComponentListeners(
                         eventListeners["componentUpdated"],
                         componentUpdatedData(id, name, entities[id][name], data))
           /\ lastOp' = [op |-> "updateComponent", id |-> id, name |-> name,
                         newData |-> data]
           /\ UNCHANGED <<eventListeners, disposers>>
           /\ ApiFrame

\* world.removeComponent('mainPet', componentName)
ApiRemoveComponent ==
    \E name \in ApiComponentNames :
        Becomes(removeComponent(World, MainPet, name, NoReaction),
                Op("removeComponent", MainPet, name))

\* api.addComponentToPet(componentName, componentData)
AddComponentToPet ==
    \E pluginId \in ApiPluginIds, componentName \in PluginComponents,
       data \in ComponentData :
        Becomes(addComponent(World, MainPet, NamespacedName(pluginId, componentName),
                             data, NoReaction),
                Op("addComponent", MainPet, NamespacedName(pluginId, componentName)))

\* the pet and another entity, each with the dragging plugin's component
InitApi ==
    /\ entities = [id \in ApiEntityIds |->
                      [name \in {NamespacedName("dragging", "dragging")} |-> "d1"]]
    /\ componentIndex = [name \in {NamespacedName("dragging", "dragging")}
                            |-> ApiEntityIds]
    /\ nextEntityId = 1
    /\ emitted = << >>
    /\ ret = Undefined
    /\ lastOp = Op("constructor", NoId, "none")
    /\ removed = {}
    /\ NoHost

NextApi ==
    \/ OnPetComponentChange
    \/ Unsubscribe
    \/ ApiUpdateComponent
    \/ ApiRemoveComponent
    \/ AddComponentToPet

SpecApi == InitApi /\ [][NextApi]_vars

\* the subscriptions that are in force: made and not yet unsubscribed
Subscribed == {i \in 1..Len(disposers) : disposers[i].timesCalled = 0}

\* the subscriptions an update of the component name of entity id concerns
Concerned(id, name) ==
    {i \in Subscribed :
        /\ id = MainPet
        /\ NamespacedName(disposers[i].callback.pluginId,
                          disposers[i].callback.componentName) = name}

\* C26: an updateComponent that succeeds on the pet for a plugin's
\* namespaced component calls the callback of every subscription in force
\* for that component once, with the new and the old data; no other
\* callback is called, none for another entity or component, none after
\* its unsubscribe
C26_ComponentChangeCallbacks ==
    [][lastOp'.op = "updateComponent"
          => LET due == IF ret' = Null THEN {}
                        ELSE Concerned(lastOp'.id, lastOp'.name)
             IN /\ Len(invoked') = Cardinality(due)
                /\ {invoked'[k] : k \in 1..Len(invoked')}
                     = {[callback |-> disposers[i].callback,
                         newData |-> lastOp'.newData,
                         oldData |-> entities[lastOp'.id][lastOp'.name]] : i \in due}]_vars


\* C27: unloadPlugin of an id that is not loaded returns false and changes
\* nothing; unloadPlugin of a loaded id returns true and leaves the id out
\* of getLoadedPlugins(), whatever the plugin's cleanup does, so that a
\* later loadPlugin of the id initializes the plugin again
C27_UnloadPluginRemoves ==
    [][lastOp'.op = "unloadPlugin"
          => IF IsLoaded(loadedPlugins, lastOp'.id)
             THEN /\ ret' = True
                  /\ ~IsLoaded(loadedPlugins', lastOp'.id)
             ELSE /\ ret' = False
                  /\ loadedPlugins' = loadedPlugins]_vars


(***************************************************************************)
(* The context menu registry: menu items registered through the plugin     *)
(* API, through menuItemRegistered events and through                      *)
(* MenuRegistryComponent.addMenuItem.  An item is a record of its label,   *)
(* its pluginId and, when it has one, its order; serial stands for the     *)
(* identity of the item object and given records the order value the       *)
(* registration was given, None when it was given none.                    *)
(***************************************************************************)
MenuRegistry == "menuRegistry"

\* the order values given at registration
MenuOrders == {None, Some(0), Some(50), Some(100), Some(200)}

\* the registrations in a run
MaxMenuItems == 3

\* the default of createPluginApi.registerMenuItem
DefaultOrder == 100

\* the comparator (a, b) => a.order - b.order is consistent on the items:
\* every item has an order, or the items that have one all have the same
\* (an item without order compares as equal to every other, NaN being
\* taken for +0)
ConsistentOrder(items) ==
    \/ \A i \in 1..Len(items) : "order" \in DOMAIN items[i]
    \/ \A i, j \in 1..Len(items) :
          ("order" \in DOMAIN items[i] /\ "order" \in DOMAIN items[j])
              => items[i].order = items[j].order

\* the orderings of items
Orderings(items) ==
    {[i \in 1..Len(items) |-> items[p[i]]] :
        p \in {q \in [1..Len(items) -> 1..Len(items)] :
                  \A i, j \in 1..Len(items) : q[i] = q[j] => i = j}}

\* a - b < 0 for the comparator, false when either order is missing
Before(a, b) == "order" \in DOMAIN a /\ "order" \in DOMAIN b /\ a.order < b.order

\* Array.prototype.sort((a, b) => a.order - b.order): the arrays it may
\* leave.  The sort is stable with a consistent comparator; with an
\* inconsistent one the order is implementation-defined
sort(items) ==
    IF ConsistentOrder(items)
    THEN {sorted \in Orderings(items) :
            \A i, j \in 1..Len(items) :
                i < j => /\ ~Before(sorted[j], sorted[i])
                         /\ Before(sorted[i], sorted[j])
                              \/ \E k, l \in 1..Len(items) :
                                    /\ items[k] = sorted[i] /\ items[l] = sorted[j]
                                    /\ k < l}
    ELSE Orderings(items)

\* ContextMenuSystem.registerMenuItem up to the push: the registry entity
\* is created when it does not exist, the item is appended
registerMenuItem_push(w, pluginId, item) ==
    LET w1 == IF MenuRegistry \in DOMAIN w.entities THEN w
              ELSE addComponent(createEntity(w, MenuRegistry), MenuRegistry, MenuRegistry,
                                [items |-> << >>, contextMenuTargets |-> {"pet"}],
                                NoReaction)
        fullItem == [k \in DOMAIN item \cup {"pluginId"} |->
                        IF k = "pluginId" THEN pluginId ELSE item[k]]
    IN [w1 EXCEPT !.entities[MenuRegistry][MenuRegistry].items = Append(@, fullItem)]

\* ContextMenuSystem.registerMenuItem from the sort on, sorted being the
\* array the sort leaves
registerMenuItem_sorted(w, sorted) ==
    LET w1 == [w EXCEPT !.entities[MenuRegistry][MenuRegistry].items = sorted]
    IN [emitEvent(w1, "menuItemAdded", NoId, NoReaction) EXCEPT !.ret = Undefined]

\* the item createPluginApi.registerMenuItem builds: order: options.order || 100
menuItem(label, given, serial) ==
    [label |-> label,
     order |-> IF given = None THEN DefaultOrder ELSE OrElse(given[1], DefaultOrder),
     given |-> given, serial |-> serial]

\* an item built by the emitter of a menuItemRegistered event or the
\* caller of addMenuItem: it has an order when one was given
plainItem(label, given, serial) ==
    IF given = None THEN [label |-> label, given |-> given, serial |-> serial]
    ELSE [label |-> label, order |-> given[1], given |-> given, serial |-> serial]

\* the items of the registry
MenuItems ==
    IF MenuRegistry \in DOMAIN entities /\ MenuRegistry \in DOMAIN entities[MenuRegistry]
    THEN entities[MenuRegistry][MenuRegistry].items ELSE << >>

\* a registration of item for pluginId, by way of ContextMenuSystem
MenuRegistration(pluginId, item, op) ==
    LET pushed == registerMenuItem_push(World, pluginId, item)
    IN \E sorted \in sort(pushed.entities[MenuRegistry][MenuRegistry].items) :
          /\ calls < MaxMenuItems
          /\ calls' = calls + 1
          /\ entities' = registerMenuItem_sorted(pushed, sorted).entities
          /\ componentIndex' = pushed.componentIndex
          /\ nextEntityId' = pushed.nextEntityId
          /\ removed' = pushed.removed
          /\ emitted' = registerMenuItem_sorted(pushed, sorted).emitted
          /\ ret' = Undefined
          /\ lastOp' = op
          /\ UNCHANGED <<petConfig, statsPetConfigs, interactionsPetConfigs, systems, now,
                         lastDegradationTime, lastEnergyCostTime, entitiesWalking, timers,
                         walkTarget, targetReached, ticks, loadedPlugins, eventListeners,
                         invoked, disposers, statusHistory, display, channel>>

\* api.registerMenuItem(label, action, {order}), the context menu system
\* listening to menuItemRegistered
ApiRegisterMenuItem ==
    \E pluginId \in ApiPluginIds, given \in MenuOrders :
        MenuRegistration(pluginId, menuItem("item", given, calls + 1),
                   [op |-> "registerMenuItem", id |-> pluginId, name |-> "item",
                    given |-> given])

\* world.emitEvent('menuItemRegistered', {pluginId, item})
MenuItemRegistered ==
    \E pluginId \in ApiPluginIds, given \in {None, Some(50)} :
        MenuRegistration(pluginId, plainItem("item", given, calls + 1),
                   [op |-> "menuItemRegistered", id |-> pluginId, name |-> "item",
                    given |-> given])

\* MenuRegistryComponent.addMenuItem(component, item) on the registry's
\* component: the same push and sort
AddMenuItem ==
    \E given \in {None, Some(50)} :
        /\ MenuRegistry \in DOMAIN entities
        /\ \E sorted \in sort(Append(MenuItems, plainItem("item", given, calls + 1))) :
              /\ calls < MaxMenuItems
              /\ calls' = calls + 1
              /\ entities' = [entities EXCEPT ![MenuRegistry][MenuRegistry].items = sorted]
              /\ emitted' = << >>
              /\ ret' = Undefined
              /\ lastOp' = [op |-> "addMenuItem", id |-> NoId, name |-> "item",
                            given |-> given]
              /\ UNCHANGED <<componentIndex, nextEntityId, removed, petConfig,
                             statsPetConfigs, interactionsPetConfigs, systems, now,
                             lastDegradationTime, lastEnergyCostTime, entitiesWalking,
                             timers, walkTarget, targetReached, ticks, loadedPlugins,
                             eventListeners, invoked, disposers, statusHistory, display,
                             channel>>

NextMenu ==
    \/ ApiRegisterMenuItem
    \/ MenuItemRegistered
    \/ AddMenuItem

SpecMenu == InitWorld /\ [][NextMenu]_vars

\* the order an item was registered with: the value given, 100 when none
GivenOrder(item) == IF item.given = None THEN DefaultOrder ELSE item.given[1]

\* C28: the registry's items are in ascending order of the order values
\* given at registration (100 when none was given), items of equal order
\* in the order they were registered, and every registered item is in the
\* list exactly once
C28_MenuItemsSorted ==
    /\ Len(MenuItems) = calls
    /\ {MenuItems[i].serial : i \in 1..Len(MenuItems)} = 1..calls
    /\ \A i, j \in 1..Len(MenuItems) :
          i < j => \/ GivenOrder(MenuItems[i]) < GivenOrder(MenuItems[j])
                   \/ /\ GivenOrder(MenuItems[i]) = GivenOrder(MenuItems[j])
                      /\ MenuItems[i].serial < MenuItems[j].serial


\* the entityRemoved events for entity id among events
RemovalEvents(events, id) ==
    {k \in 1..Len(events) : events[k] = <<"entityRemoved", id>>}

\* C29: removeEntity of a known id emits entityRemoved first, while the
\* entity can still be retrieved (a listener that adds a component to it
\* succeeds), then deletes the entity and returns true, with exactly one
\* entityRemoved event for the removal; removeEntity of an unknown id
\* returns false, emits nothing and changes nothing
C29_RemoveEntityAnnouncedOnce ==
    [][lastOp'.op = "removeEntity"
          => IF lastOp'.id \in DOMAIN entities
             THEN /\ ret' = True
                  /\ lastOp'.id \notin DOMAIN entities'
                  /\ emitted' # << >>
                  /\ emitted'[1] = <<"entityRemoved", lastOp'.id>>
                  /\ Cardinality(RemovalEvents(emitted', lastOp'.id)) = 1
                  /\ (/\ lastOp'.listener.op = "addComponent"
                      /\ lastOp'.listener.id = lastOp'.id)
                        => \E k \in 2..Len(emitted') :
                              emitted'[k] = <<"componentAdded", lastOp'.id>>
             ELSE /\ ret' = False
                  /\ emitted' = << >>
                  /\ entities' = entities
                  /\ componentIndex' = componentIndex]_vars


(***************************************************************************)
(* The systems of a World on their own: systems is the Map of the World,   *)
(* a sequence of entries in insertion order.  A system object has an       *)
(* enabled flag (true, false, or none), an update hook that is missing,    *)
(* returns, or throws, and an init hook that is missing or returns; serial *)
(* stands for the identity of the object.                                  *)
(***************************************************************************)
SystemNames == {"s1", "s2"}
EnabledFlags == {True, False, Undefined}
Hooks == {"none", "returns", "throws"}
InitHooks == {"none", "returns"}

\* the registrations in a run
MaxSystemCalls == 3

\* the deltaTime values of the passes
DeltaTimes == {0, 16}

\* Map.set(systemName, system): an existing key keeps its place
MapSet(map, systemName, system) ==
    IF \E i \in 1..Len(map) : map[i].name = systemName
    THEN [i \in 1..Len(map) |->
             IF map[i].name = systemName THEN [name |-> systemName, system |-> system]
             ELSE map[i]]
    ELSE Append(map, [name |-> systemName, system |-> system])

\* a plausible slip: the systems are kept in a list, and a name registered
\* again is appended
World_registerSystem_appends(map, systemName, system) ==
    [systems |-> Append(map, [name |-> systemName, system |-> system]),
     invoked |-> IF system.init = "none" THEN << >>
                 ELSE <<[name |-> systemName, serial |-> system.serial,
                         hook |-> "init", world |-> "world"]>>,
     ret |-> Undefined]

\* World.registerSystem: the Map after the call, the calls of init made
\* and the value returned
World_registerSystem(map, systemName, system) ==
    [systems |-> MapSet(map, systemName, system),
     invoked |-> IF system.init = "none" THEN << >>
                 ELSE <<[name |-> systemName, serial |-> system.serial,
                         hook |-> "init", world |-> "world"]>>,
     ret |-> Undefined]

\* World.unregisterSystem: the Map after the call and the value returned;
\* what the system's cleanup throws reaches the caller before the delete
World_unregisterSystem(map, systemName, cleanup) ==
    IF ~\E i \in 1..Len(map) : map[i].name = systemName
    THEN [systems |-> map, ret |-> False]
    ELSE IF cleanup = "throws" THEN [systems |-> map, ret |-> Thrown]
    ELSE [systems |-> SelectSeq(map, LAMBDA entry : entry.name # systemName),
          ret |-> True]

\* the loop of World.update over the entries of the Map: the update hook of
\* a system is called with deltaTime and the world unless the system is
\* flagged enabled === false or has no hook; what a hook throws ends the
\* loop and reaches the caller.  done is the calls made so far
RECURSIVE World_update(_, _, _)
World_update(map, deltaTime, done) ==
    IF map = << >> THEN [invoked |-> done, ret |-> Undefined]
    ELSE LET system == Head(map).system
             called == Append(done, [name |-> Head(map).name, serial |-> system.serial,
                                     deltaTime |-> deltaTime, world |-> "world"])
         IN IF system.enabled = False \/ system.update = "none"
            THEN World_update(Tail(map), deltaTime, done)
            ELSE IF system.update = "throws"
                 THEN [invoked |-> called, ret |-> Thrown]
                 ELSE World_update(Tail(map), deltaTime, called)

\* what a call about the systems leaves alone
SystemsFrame ==
    UNCHANGED <<entities, componentIndex, nextEntityId, emitted, removed, petConfig,
                statsPetConfigs, interactionsPetConfigs, now, lastDegradationTime,
                lastEnergyCostTime, entitiesWalking, timers, walkTarget, targetReached,
                ticks, loadedPlugins, eventListeners, disposers, statusHistory, display,
                channel>>

\* world.registerSystem(systemName, system) with a new system object
RegisterSystem ==
    \E systemName \in SystemNames, enabled \in EnabledFlags, hook \in Hooks,
       init \in InitHooks :
        LET system == [serial |-> calls + 1, enabled |-> enabled, update |-> hook,
                       init |-> init]
        IN /\ calls < MaxSystemCalls
           /\ calls' = calls + 1
           /\ systems' = World_registerSystem(systems, systemName, system).systems
           /\ invoked' = World_registerSystem(systems, systemName, system).invoked
           /\ ret' = World_registerSystem(systems, systemName, system).ret
           /\ lastOp' = [op |-> "registerSystem", id |-> NoId, name |-> systemName,
                         system |-> system]
           /\ SystemsFrame

\* world.unregisterSystem(systemName)
UnregisterSystem ==
    \E systemName \in SystemNames, cleanup \in Cleanups :
        /\ systems' = World_unregisterSystem(systems, systemName, cleanup).systems
        /\ ret' = World_unregisterSystem(systems, systemName, cleanup).ret
        /\ invoked' = << >>
        /\ lastOp' = [op |-> "unregisterSystem", id |-> NoId, name |-> systemName,
                      cleanup |-> cleanup]
        /\ UNCHANGED calls
        /\ SystemsFrame

\* world.update(deltaTime)
WorldUpdate ==
    \E deltaTime \in DeltaTimes :
        /\ invoked' = World_update(systems, deltaTime, << >>).invoked
        /\ ret' = World_update(systems, deltaTime, << >>).ret
        /\ lastOp' = [op |-> "update", id |-> NoId, name |-> "none",
                      deltaTime |-> deltaTime]
        /\ UNCHANGED <<systems, calls>>
        /\ SystemsFrame

NextSystems ==
    \/ RegisterSystem
    \/ UnregisterSystem
    \/ WorldUpdate

SpecSystems == InitWorld /\ [][NextSystems]_vars

\* the registered systems an update pass is to call, in the order of the
\* Map: a name keeps the place of its first registration while it stays
\* registered
Updated(map) ==
    SelectSeq(map, LAMBDA entry : entry.system.enabled # False
                                  /\ entry.system.update # "none")

\* C30: a call of world.update(dt) calls the update hook of every
\* registered system that is not flagged enabled === false and has a hook
\* exactly once, in registration order, with dt and the world; no other
\* system is called, in particular none that was unregistered
C30_UpdateCallsEverySystem ==
    [][lastOp'.op = "update"
          => /\ Len(invoked') = Len(Updated(systems))
             /\ \A k \in 1..Len(invoked') :
                   invoked'[k] = [name |-> Updated(systems)[k].name,
                                  serial |-> Updated(systems)[k].system.serial,
                                  deltaTime |-> lastOp'.deltaTime,
                                  world |-> "world"]]_vars


\* the events named eventName among events, in order
EventsNamed(events, eventName) == SelectSeq(events, LAMBDA e : e[1] = eventName)

\* C31: deserialize(data) emits one entityAdded per entity of data, in the
\* order of data, and then exactly one worldRestored, which is its last
\* event; afterwards the entities of the world are exactly those of data,
\* none from before, and the index holds exactly their components (checked
\* for a restore during which no listener changes the world)
C31_DeserializeReplacesWorld ==
    [][lastOp'.op = "deserialize"
          => LET data == lastOp'.data.entities
             IN /\ EventsNamed(emitted', "entityAdded")
                     = [i \in 1..Len(data) |-> <<"entityAdded", data[i].id>>]
                /\ Len(EventsNamed(emitted', "worldRestored")) = 1
                /\ emitted'[Len(emitted')] = <<"worldRestored", NoId>>
                /\ lastOp'.listener = NoReaction
                     => /\ DOMAIN entities' = {data[i].id : i \in 1..Len(data)}
                        /\ \A i \in 1..Len(data) :
                              entities'[data[i].id] = data[i].components
                        /\ IndexConsistent(World')
                        /\ Len(emitted') = Len(data) + 1]_vars

\* C31 witness: a world whose counter has advanced is restored from a
\* snapshot of two entities without a counter; the world holds the two
\* entities and the events are their two entityAdded and worldRestored
C31_Witness ==
    /\ lastOp.op = "deserialize"
    /\ lastOp.listener = NoReaction
    /\ Len(lastOp.data.entities) = 2
    /\ lastOp.data.nextEntityId = 0
    /\ nextEntityId = 2
    /\ DOMAIN entities = {"e1", "e2"}
    /\ emitted = <<<<"entityAdded", "e2">>, <<"entityAdded", "e1">>,
                   <<"worldRestored", NoId>>>>


\* C32: an operation of the host emits appearanceUpdated for the pet only
\* when the pet's status, mood or graphic after it differs from the value
\* before it; an operation that leaves the three equal emits none
C32_AppearanceChangeDetected ==
    [][CountEvents(emitted', "appearanceUpdated") > 0
          => \/ Appearance'.status # Appearance.status
             \/ Appearance'.mood # Appearance.mood
             \/ Appearance'.graphic # Appearance.graphic]_vars


\* C33: in every reachable state the status of every entity with an
\* appearance in the host world, the status of the display's pet, and the
\* status of every state on its way to the display, is one of idle,
\* walking, interacting, sleeping, dragging
C33_StatusInEnum ==
    /\ \A id \in DOMAIN entities :
          hasComponent(entities[id], "appearance")
              => entities[id]["appearance"].status \in Statuses
    /\ display # None => display[1].status \in Statuses
    /\ \A k \in 1..Len(channel) : channel[k].status \in Statuses

\* C33 witness: a status restore timer has put the host's pet back to
\* walking while the display, one state behind, still shows interacting
C33_Witness ==
    /\ lastOp.op = "onPetStateUpdate"
    /\ display # None
    /\ display[1].status = "interacting"
    /\ Appearance.status = "walking"
    /\ channel # << >>
    /\ channel[Len(channel)].status = "walking"


\* the steps of the host that no request causes: a pass of the update
\* loop, a status restore timer, the arrival of the species config
Unrequested == {"update", "restoreStatus", "configLoaded"}

\* C34: after a drag stop the pet's status is idle, whatever it was before,
\* and an idle status stays idle through every step that is not a walk,
\* drag or interaction request (update passes and restore timers), so it
\* stays idle until the next such request
C34_DragStopLeavesIdle ==
    [][/\ lastOp'.op = "dragEnded" => Appearance'.status = "idle"
       /\ (lastOp'.op \in Unrequested /\ Appearance.status = "idle")
             => Appearance'.status = "idle"]_vars

\* C34 witness: a drag was stopped while the restore timer of an
\* interaction was pending; the timer has fired since, has written nothing,
\* and the pet is idle
C34_Witness ==
    /\ lastOp.op = "restoreStatus"
    /\ emitted = << >>
    /\ Appearance.status = "idle"
    /\ hasComponent(entities[MainPet], DragState)
    /\ ~entities[MainPet][DragState].isDragging
    /\ WalkIdle


\* C35: createEntity without an id returns a new entity without components
\* whose id is the id of no entity in the world, and no createEntity call,
\* with or without an id, replaces an entity of the world or takes its
\* components away
C35_CreateEntityFresh ==
    [][lastOp'.op = "createEntity"
          => /\ lastOp'.id = NoId
                  => /\ ret' \notin DOMAIN entities
                     /\ ret' \in DOMAIN entities'
                     /\ entities'[ret'] = EmptyMap
             /\ \A id \in DOMAIN entities :
                   /\ id \in DOMAIN entities'
                   /\ entities'[id] = entities[id]]_vars


\* the names of the entries of a Map, in order
MapNames(map) == [i \in 1..Len(map) |-> map[i].name]

\* C36: registerSystem calls the init hook of the system once, with the
\* world, before it returns, and calls nothing when there is no hook; a
\* name already in use raises no error and its entry is replaced, the
\* other entries staying as they are; and a pass of world.update calls, for
\* each name, only the system now registered under it, at most once
C36_RegisterSystemReplaces ==
    [][/\ lastOp'.op = "registerSystem"
          => /\ ret' = Undefined
             /\ invoked' = IF lastOp'.system.init = "none" THEN << >>
                           ELSE <<[name |-> lastOp'.name,
                                   serial |-> lastOp'.system.serial,
                                   hook |-> "init", world |-> "world"]>>
             /\ MapNames(systems')
                  = IF \E i \in 1..Len(systems) : systems[i].name = lastOp'.name
                    THEN MapNames(systems)
                    ELSE Append(MapNames(systems), lastOp'.name)
             /\ \A i \in 1..Len(systems') :
                   systems'[i].system = IF systems'[i].name = lastOp'.name
                                        THEN lastOp'.system ELSE systems[i].system
       /\ lastOp'.op = "update"
          => /\ \A k \in 1..Len(invoked') :
                   \E i \in 1..Len(systems) :
                      /\ systems[i].name = invoked'[k].name
                      /\ systems[i].system.serial = invoked'[k].serial
             /\ \A k, l \in 1..Len(invoked') :
                   invoked'[k].name = invoked'[l].name => k = l]_vars

\* C36 witness: the system registered first under its name was replaced by
\* a later one, which kept the first place in the Map, and a pass of
\* update has called the replacement and then the other system
C36_Witness ==
    /\ lastOp.op = "update"
    /\ Len(systems) = 2
    /\ systems[1].system.serial > systems[2].system.serial
    /\ systems[1].system.init = "returns"
    /\ Len(invoked) = 2
    /\ invoked[1].serial = systems[1].system.serial
    /\ invoked[2].serial = systems[2].system.serial


\* C37: whenever no restore timer is pending, after any interleaving of
\* interaction requests with walk and drag starts and stops, the pet's
\* status is not 'interacting'
C37_InteractingIsTransient ==
    timers = << >> => Appearance.status # "interacting"

\* C37 witness: the last pending timer has fired and has put the pet,
\* interacted with during a drag, back to dragging
C37_Witness ==
    /\ lastOp.op = "restoreStatus"
    /\ timers = << >>
    /\ CountEvents(emitted, "appearanceUpdated") = 1
    /\ Appearance.status = "dragging"
    /\ calls = MaxInteractCalls


\* a system holds a walk of the pet: MovementSystem has it in
\* entitiesWalking, or its walkState says isWalking and holds a target
WalkHeld ==
    \/ MainPet \in DOMAIN entitiesWalking
    \/ /\ hasComponent(entities[MainPet], WalkState)
       /\ entities[MainPet][WalkState].isWalking
       /\ entities[MainPet][WalkState].target # None

\* C38: between events, a pet whose status is 'walking' has a walk in
\* progress, after any interleaving of walk requests, arrivals, stop
\* requests, drags, interactions and restore timers
C38_WalkingStatusHasWalk ==
    Appearance.status = "walking" => WalkHeld


\* C39: a stop-walking request for a pet that no system walks returns
\* false, leaves the status as it was ('dragging' and 'interacting'
\* included) and emits no walkingStopped, also after an earlier walk
C39_StopWalkWhenNotWalking ==
    [][(lastOp'.op = "stopWalkRequested" /\ WalkIdle)
          => /\ ret' = False
             /\ Appearance'.status = Appearance.status
             /\ CountEvents(emitted', "walkingStopped") = 0]_vars


(***************************************************************************)
(* The host with a listener of 'targetReached' that keeps the pet on       *)
(* patrol: walk and stop requests, and the passes of the update loop.      *)
(***************************************************************************)
\* the walk and stop requests delivered in a run
MaxPatrolCalls == 2
\* the passes of the update loop in a run
MaxPatrolTicks == 12

\* one pass of the update loop with the listener registered
PatrolTick ==
    /\ ticks < MaxPatrolTicks
    /\ HostBecomes(update([Host EXCEPT !.now = now + UpdateDelay, !.onTargetReached = "patrol"]),
                   [op |-> "update", id |-> NoId, name |-> "none", listener |-> "patrol"], 0)

InitPatrol == InitHostWith(DefaultCat, DefaultPlugins)

NextPatrol ==
    \/ WalkRequested(WalkTargets, MaxPatrolCalls)
    \/ StopWalkRequested(MaxPatrolCalls)
    \/ PatrolTick

SpecPatrol == InitPatrol /\ [][NextPatrol]_vars

\* the walking system has reached target in the step: it was walking to
\* it, and records it as the last target reached
PluginReached(target) ==
    /\ hasComponent(entities[MainPet], WalkState)
    /\ entities[MainPet][WalkState].isWalking
    /\ entities[MainPet][WalkState].target = Some(target)
    /\ entities[MainPet][WalkState].lastTargetReached # Some(target)
    /\ entities'[MainPet][WalkState].lastTargetReached = Some(target)

\* C40: when the walking system reaches a target and a listener of
\* targetReached starts the next walk during the event, the pass leaves the
\* pet walking to the new target (isWalking, the target stored, status
\* 'walking') and emits no walkingStopped
C40_NewWalkSurvivesArrival ==
    [][\A target \in WalkTargets :
          (lastOp'.op = "update" /\ lastOp'.listener = "patrol" /\ PluginReached(target))
             => /\ entities'[MainPet][WalkState].isWalking
                /\ entities'[MainPet][WalkState].target = Some(patrolTarget(target))
                /\ Appearance'.status = "walking"
                /\ CountEvents(emitted', "walkingStopped") = 0]_vars

====
